---- MODULE Spec2Model ----
(***************************************************************************)
(* A model of the offer scraper: the frontier collector                    *)
(* (LinkCollector.collect_links), the rate-limited and retried fetcher     *)
(* (AsyncHttpxClient.get_text), the bounded-concurrency harvester          *)
(* (DetailScraper.scrape_details) and the coordinator                      *)
(* (ScrapeCoordinator.run).                                                *)
(*                                                                         *)
(* Nine specifications share the module:                                   *)
(*   SpecCollector    collect_links over an arbitrary site, the HttpClient *)
(*                    seen through its protocol (html, "" or None);        *)
(*   SpecHarvest      scrape_details driving one shared AsyncHttpxClient,  *)
(*                    with a discrete clock (one tick = one second);       *)
(*   SpecCollectorFair  the same, where every fetch returns;               *)
(*   SpecCollectorAnyCap  collect_links with max_items below 0 as well;    *)
(*   SpecCoordinator  run: collect_links, scrape_details, sort, save, the  *)
(*                    HttpClient seen through its protocol;                *)
(*   SpecCoordinatorFair  the same, where the event loop runs every task   *)
(*                    that can run and every request ends (timeout);       *)
(*   SpecParser       DoisPorUmDetailParser.parse on one detail page;      *)
(*   SpecListParser   extract_detail_links on one list page;               *)
(*   SpecRepository   save_csv and save_jsonl of PandasOfferRepository.    *)
(***************************************************************************)
EXTENDS Integers, Sequences, FiniteSets, TLC

(***************************************************************************)
(* Bounds of the model.                                                    *)
(***************************************************************************)
MaxItems == 3
\* largest max_items tried
MaxRate == 2
\* largest rate_limit_seconds tried
MaxConc == 2
\* largest max_concurrency tried
MaxUrls == 2
\* largest number of detail URLs handed to scrape_details
MaxTicks == 6
\* seconds of clock the model lets pass
MaxTexts == 3
\* most text blocks of a detail page with offer, mixed or phone texts
MaxCepTexts == 6
\* most postal-code blocks of a detail page
MaxImgs == 2
\* most img elements of a detail page
MaxParses == 2
\* times the same page is parsed
MaxAnchors == 3
\* most anchors of a list page
MaxSaves == 2
\* calls of the repository

(***************************************************************************)
(* Values.                                                                 *)
(***************************************************************************)
Pages == {"p1", "p2", "p3"}
\* list-page URLs of the site
seed_url == "p1"
\* the seed is one of the list pages

DetailUrls == {<<"1", "0">>, <<"9">>, <<"0", "9">>, <<"x">>, <<"y">>}
\* detail-page URLs, each written as the characters that follow "/details/"

Min(a, b) == IF a <= b THEN a ELSE b

Max(a, b) == IF a >= b THEN a ELSE b

\* list(s): the elements of a set in some order the interpreter picks
\* lists that may name an element more than once
ListsWithRepeats(S) == [1..Cardinality(S) -> S]

ListsOf(S) == {s \in [1..Cardinality(S) -> S] : \A i, j \in 1..Cardinality(S) : s[i] = s[j] => i = j}

\* What HttpClient.get_text hands back: None, the empty string, or a page.
\* A list page is the pair of link sets the ListPageParser extracts from it.
NoneHtml == [kind |-> "none", details |-> {}, next |-> {}]

EmptyHtml == [kind |-> "empty", details |-> {}, next |-> {}]

PageHtmls == [kind : {"page"}, details : SUBSET DetailUrls, next : SUBSET Pages]

\* Python truthiness of an Optional[str]: None and "" are both falsy
Truthy(h) == h.kind \in {"page", "broken"}

extract_detail_links(h) == h.details

extract_pagination_links(h) == h.next

\* What the network gives one attempt of get_text: a response text, or one
\* of the failures httpx raises (client.get: transport error or timeout;
\* raise_for_status: non-2xx status)
FailureKinds == {"transport", "timeout", "status"}

DetailPage == [kind |-> "page", details |-> {}, next |-> {}]

\* a detail page with an img whose srcset has a blank candidate, as in
\* srcset="a.jpg 1x, ": _extract_images raises IndexError on it
BrokenPage == [kind |-> "broken", details |-> {}, next |-> {}]

ResponseTexts == {EmptyHtml, DetailPage, BrokenPage}

\* the URL list handed to scrape_details is a prefix of this list
UrlList == <<(<<"1", "0">>), (<<"9">>), (<<"x">>), (<<"0", "9">>)>>

VARIABLES
    site,
    max_items,
    collected_links,
    visited_pages,
    pages_to_visit,
    lc_pc,
    lc_result,
    fetch_log,
    fetch_failed,
    enqueued,
    offered,
    linked,
    rate_limit_seconds,
    max_concurrency,
    urls,
    now,
    last_request_time,
    last_end,
    sem,
    t_pc,
    attempt,
    wake,
    started,
    requests,
    slept,
    outcome,
    response,
    first_ok,
    html,
    log,
    completed,
    results,
    hs_pc,
    co_pc,
    save_log,
    dp_html,
    dp_url,
    dp_records,
    lp_html,
    lp_links,
    lp_pc,
    repo_warnings

lc_vars == <<site, max_items, collected_links, visited_pages, pages_to_visit, lc_pc, lc_result, fetch_log, fetch_failed, enqueued, offered, linked>>

cfg_vars == <<rate_limit_seconds, max_concurrency, urls>>

client_vars == <<now, last_request_time, last_end, t_pc, attempt, wake, started, requests, slept, outcome, response, first_ok, html, log>>

hs_vars == <<sem, completed, results, hs_pc>>

co_vars == <<co_pc, save_log>>

parser_vars == <<dp_html, dp_url, dp_records>>

lp_vars == <<lp_html, lp_links, lp_pc>>

repo_vars == <<repo_warnings>>

leaf_vars == <<parser_vars, lp_vars, repo_vars>>

vars == <<lc_vars, cfg_vars, client_vars, hs_vars, co_vars, leaf_vars>>

\* no detail page is being parsed
DPIdle ==
    /\ dp_html = <<>>
    /\ dp_url = <<>>
    /\ dp_records = <<>>

\* no list page is being parsed
LPIdle ==
    /\ lp_html = <<>>
    /\ lp_links = <<>>
    /\ lp_pc = "idle"

\* the repository has logged nothing
RepoIdle == repo_warnings = <<>>

\* the parsers and the repository are not running on their own
LeafIdle == DPIdle /\ LPIdle /\ RepoIdle

(***************************************************************************)
(* LinkCollector.collect_links                                             *)
(***************************************************************************)
\* collected_links = set(); visited_pages = set(); pages_to_visit = [seed_url]
LCStart ==
    /\ collected_links = {}
    /\ visited_pages = {}
    /\ pages_to_visit = <<seed_url>>
    /\ lc_pc = "loop"
    /\ lc_result = <<>>
    /\ fetch_log = <<>>
    /\ fetch_failed = {}
    /\ enqueued = <<seed_url>>
    /\ offered = {}
    /\ linked = {}

\* any site, any cap
LCInit ==
    /\ site = "any"
    /\ max_items \in 0..MaxItems
    /\ LCStart

\* any site, any cap, a negative one included
LCAnyCapInit ==
    /\ site = "any"
    /\ max_items \in (0 - 1)..MaxItems
    /\ LCStart

\* The site of the scenario: the seed page has 3 detail links and one
\* pagination link, to a second page that has 2 more detail links; the cap
\* is one more than the seed page offers.
ScenarioSeedLinks == {<<"1">>, <<"2">>, <<"3">>}

ScenarioSecondLinks == {<<"4">>, <<"5">>}

ScenarioCap == Cardinality(ScenarioSeedLinks) + 1

ScenarioHtmls(page) ==
    IF page = seed_url
    THEN {[kind |-> "page", details |-> ScenarioSeedLinks, next |-> {"p2"}]}
    ELSE IF page = "p2"
    THEN [kind : {"page"}, details : {ScenarioSecondLinks}, next : SUBSET Pages]
    ELSE PageHtmls

LCScenarioInit ==
    /\ site = "scenario"
    /\ max_items = ScenarioCap
    /\ LCStart

\* the pages the site can answer a successful fetch of a list page with
Served(page) == IF site = "scenario" THEN ScenarioHtmls(page) ELSE PageHtmls

\* a loop that goes on as long as pages are queued
LoopCondQueueOnly == pages_to_visit /= <<>>

\* while pages_to_visit and len(collected_links) < max_items
LoopCond == pages_to_visit /= <<>> /\ Cardinality(collected_links) < max_items

\* a loop that adds every link, without the check against the cap
AddDetailLinksUnbounded(collected, links, cap) == {collected \cup links}

\* the for loop over detail_links: links are added in the order the list
\* enumerates them until the cap is reached

AddDetailLinks(collected, links, cap) ==
    {collected \cup added : added \in
        {a \in SUBSET (links \ collected) :
            Cardinality(collected \cup a) = Min(Max(cap, Cardinality(collected)), Cardinality(collected \cup links))}}

\* a collector that forgets what it visited
AlreadyVisitedNever(url, visited) == FALSE

\* current_url in visited_pages

AlreadyVisited(url, visited) == url \in visited

\* a queue that is popped at its end
PopIndexLast(queue) == Len(queue)

\* pages_to_visit.pop(0): the position that is popped
PopIndex(queue) == 1

\* current_url = pages_to_visit.pop(0)
current_url == pages_to_visit[PopIndex(pages_to_visit)]

\* pages_to_visit after the pop
Popped ==
    SubSeq(pages_to_visit, 1, PopIndex(pages_to_visit) - 1)
        \o SubSeq(pages_to_visit, PopIndex(pages_to_visit) + 1, Len(pages_to_visit))

\* the pages of order that were never appended to the queue before
FirstAppends(before, order) ==
    SelectSeq(order, LAMBDA p : \A k \in 1..Len(before) : before[k] /= p)

\* a collector that remembers the last page only
MarkVisitedLast(visited, url) == {url}

\* visited_pages.add(current_url)
MarkVisited(visited, url) == visited \cup {url}

\* a collector that follows pagination at the cap too
FollowPaginationAlways(collected, cap) == TRUE

\* if len(collected_links) < max_items: follow pagination
FollowPagination(collected, cap) == Cardinality(collected) < cap

\* a collector that guesses the list pages of the site
NotVisitedOfSite(links, visited) == Pages \ visited

\* for link in pagination_links: if link not in visited_pages
NotVisited(links, visited) == links \ visited

\* iteration that pops a page already visited: continue
LCSkip ==
    /\ lc_pc = "loop"
    /\ LoopCond
    /\ AlreadyVisited(current_url, visited_pages)
    /\ pages_to_visit' = Popped
    /\ UNCHANGED <<site, max_items, collected_links, visited_pages, lc_pc, lc_result, fetch_log, fetch_failed, enqueued, offered, linked>>
    /\ UNCHANGED <<cfg_vars, client_vars, hs_vars, co_vars, leaf_vars>>

\* a collector that queues a page again when its fetch failed
RequeueFailed(rest, page) == Append(rest, page)

\* if not html: continue (the page is not put back)
QueueAfterFailure(rest, page) == rest

\* iteration whose fetch gives None or "": mark visited, continue
\* (the site of the scenario serves every page)
LCFetchFail ==
    /\ lc_pc = "loop"
    /\ LoopCond
    /\ site = "any"
    /\ ~AlreadyVisited(current_url, visited_pages)
    /\ \E h \in {NoneHtml, EmptyHtml} :
        /\ ~Truthy(h)
        /\ visited_pages' = MarkVisited(visited_pages, current_url)
        /\ fetch_log' = Append(fetch_log, current_url)
        /\ fetch_failed' = fetch_failed \cup {current_url}
        /\ pages_to_visit' = QueueAfterFailure(Popped, current_url)
    /\ UNCHANGED <<site, max_items, collected_links, lc_pc, lc_result, enqueued, offered, linked>>
    /\ UNCHANGED <<cfg_vars, client_vars, hs_vars, co_vars, leaf_vars>>

\* iteration whose fetch gives a page: collect detail links up to the cap,
\* then enqueue the pagination links that are not visited
LCFetchOk ==
    /\ lc_pc = "loop"
    /\ LoopCond
    /\ ~AlreadyVisited(current_url, visited_pages)
    /\ \E h \in Served(current_url) :
        /\ Truthy(h)
        /\ visited_pages' = MarkVisited(visited_pages, current_url)
        /\ fetch_log' = Append(fetch_log, current_url)
        /\ offered' = offered \cup extract_detail_links(h)
        /\ collected_links' \in AddDetailLinks(collected_links, extract_detail_links(h), max_items)
        /\ IF FollowPagination(collected_links', max_items)
           THEN \E order \in ListsOf(NotVisited(extract_pagination_links(h), visited_pages')) :
                    /\ pages_to_visit' = Popped \o order
                    /\ enqueued' = enqueued \o FirstAppends(enqueued, order)
                    /\ linked' = linked \cup extract_pagination_links(h)
           ELSE /\ pages_to_visit' = Popped
                /\ enqueued' = enqueued
                /\ linked' = linked
    /\ UNCHANGED <<site, max_items, lc_pc, lc_result, fetch_failed>>
    /\ UNCHANGED <<cfg_vars, client_vars, hs_vars, co_vars, leaf_vars>>

\* s[:n] of Python; a negative n counts from the end
Prefix(s, n) == IF n >= 0 THEN SubSeq(s, 1, Min(n, Len(s))) ELSE SubSeq(s, 1, Max(Len(s) + n, 0))

\* a loop that is left as soon as one link was discovered
LoopDoneAtFirstLink == collected_links /= {} \/ ~LoopCond

\* the while loop is left when its condition is false
LoopDone == ~LoopCond

\* result = list(collected_links)[:max_items]; return result
LCReturn ==
    /\ lc_pc = "loop"
    /\ LoopDone
    /\ \E l \in ListsOf(collected_links) : lc_result' = Prefix(l, max_items)
    /\ lc_pc' = "returned"
    /\ UNCHANGED <<site, max_items, collected_links, visited_pages, pages_to_visit, fetch_log, fetch_failed, enqueued, offered, linked>>
    /\ UNCHANGED <<cfg_vars, client_vars, hs_vars, co_vars, leaf_vars>>

LCNext == LCSkip \/ LCFetchFail \/ LCFetchOk \/ LCReturn

\* the collector is not running
LCIdle ==
    /\ site = "any"
    /\ max_items = 0
    /\ collected_links = {}
    /\ visited_pages = {}
    /\ pages_to_visit = <<>>
    /\ lc_pc = "idle"
    /\ lc_result = <<>>
    /\ fetch_log = <<>>
    /\ fetch_failed = {}
    /\ enqueued = <<>>
    /\ offered = {}
    /\ linked = {}

(***************************************************************************)
(* OfferItem and DoisPorUmDetailParser.parse                               *)
(***************************************************************************)
Digits == {"0", "1", "2", "3", "4", "5", "6", "7", "8", "9"}

\* the run of digits a string starts with: what (\d+) captures
RECURSIVE DigitPrefix(_)
DigitPrefix(s) ==
    IF s /= <<>> /\ Head(s) \in Digits THEN <<Head(s)>> \o DigitPrefix(Tail(s)) ELSE <<>>

NoneId == [present |-> FALSE, text |-> <<>>]

\* id_match = re.search(r"/details/(\d+)", url); group(1) or None
ExtractId(url) ==
    IF DigitPrefix(url) /= <<>> THEN [present |-> TRUE, text |-> DigitPrefix(url)] ELSE NoneId

NoneItem == [kind |-> "none", id |-> NoneId, url |-> <<>>]

RaisedItem == [kind |-> "raised", id |-> NoneId, url |-> <<>>]

\* urls = [url.strip().split()[0] for url in srcset.split(",")] raises
\* IndexError when a candidate is blank
ParseRaises(h) == h.kind = "broken"

\* parse builds an OfferItem, unless _extract_images raises
parse(h, url) == IF ParseRaises(h) THEN RaisedItem ELSE [kind |-> "offer", id |-> ExtractId(url), url |-> url]

\* if html: return self.detail_parser.parse(html, url); return None
ItemFor(h, url) == IF Truthy(h) THEN parse(h, url) ELSE NoneItem

(***************************************************************************)
(* AsyncHttpxClient.get_text called by DetailScraper._scrape_single_detail *)
(***************************************************************************)
StartTime == MaxRate + 1
\* time.time() is far above rate_limit_seconds when the process starts

Tasks == 1..Len(urls)

InFlight == {t \in Tasks : t_pc[t] \in {"rl_sleep", "attempt", "backoff"}}

ClientInit ==
    /\ now = StartTime
    /\ last_request_time \in {0, StartTime}
    /\ last_end = -1
    /\ t_pc = [t \in Tasks |-> "start"]
    /\ attempt = [t \in Tasks |-> 0]
    /\ wake = [t \in Tasks |-> 0]
    /\ started = [t \in Tasks |-> -1]
    /\ requests = [t \in Tasks |-> 0]
    /\ slept = [t \in Tasks |-> <<>>]
    /\ outcome = [t \in Tasks |-> "none"]
    /\ response = [t \in Tasks |-> NoneHtml]
    /\ first_ok = [t \in Tasks |-> 0]
    /\ html = [t \in Tasks |-> NoneHtml]
    /\ log = [t \in Tasks |-> <<>>]

HSInit ==
    /\ rate_limit_seconds \in 0..MaxRate
    /\ max_concurrency \in 1..MaxConc
    /\ \E n \in 0..MaxUrls : urls = SubSeq(UrlList, 1, n)
    /\ ClientInit
    /\ sem = max_concurrency
    /\ completed = <<>>
    /\ results = <<>>
    /\ hs_pc = "gather"

\* a loop that gives up one attempt early
MaxAttemptsLess == 3 - 1

\* for attempt in range(3)
MaxAttempts == 3

\* a loop that sleeps after the first failure only
SleepAfterFirstOnly(a) == a < 1

\* if attempt < 2: the last attempt is not followed by a sleep
SleepAfter(a) == a < 2

\* a backoff that does not grow
BackoffConstant(a) == 1

\* await asyncio.sleep(1 + attempt)
Backoff(a) == 1 + a

\* a handler that lets HTTP status errors through
CaughtOnlyTransport(kind) == kind \in {"transport", "timeout"}

\* except Exception: every failure httpx raises is caught
Caught(kind) == kind \in FailureKinds

\* a semaphore that never blocks
SemFreeAlways(value) == TRUE

\* asyncio.Semaphore: acquire passes only while the value is positive

SemFree(value) == value > 0

\* a limiter that never waits
NeedsWaitNever(elapsed) == FALSE

\* if elapsed < self.rate_limit_seconds
NeedsWait(elapsed) == elapsed < rate_limit_seconds

\* a limiter that wakes one second early
RemainingWaitShort(elapsed) == rate_limit_seconds - elapsed - 1

\* await asyncio.sleep(self.rate_limit_seconds - elapsed)
RemainingWait(elapsed) == rate_limit_seconds - elapsed

\* _apply_rate_limit up to its await, and after it
\* (sets t_pc, wake, last_request_time, started, requests)
ApplyRateLimit(t) ==
    LET elapsed == now - last_request_time IN
    IF NeedsWait(elapsed)
    THEN /\ t_pc' = [t_pc EXCEPT ![t] = "rl_sleep"]
         /\ wake' = [wake EXCEPT ![t] = now + RemainingWait(elapsed)]
         /\ UNCHANGED <<last_request_time, started, requests>>
    ELSE /\ last_request_time' = now
         /\ started' = [started EXCEPT ![t] = now]
         /\ requests' = [requests EXCEPT ![t] = 1]
         /\ t_pc' = [t_pc EXCEPT ![t] = "attempt"]
         /\ UNCHANGED wake

\* get_text returns h; the task leaves the async with block and ends, with
\* the item it returns or with the exception of parse
\* (sets html, t_pc, sem, completed)
Return(t, h) ==
    /\ html' = [html EXCEPT ![t] = h]
    /\ t_pc' = [t_pc EXCEPT ![t] = "done"]
    /\ sem' = sem + 1
    /\ completed' = Append(completed, [task |-> t, item |-> ItemFor(h, urls[t])])

\* logging.warning(f"Attempt {attempt + 1} failed for {url}: {e}")
LogWarning(entries) == Append(entries, "warning")

\* a get_text that gives up in silence
LogErrorNone(entries) == entries

\* logging.error(f"Failed to fetch {url} after 3 attempts")
LogError(entries) == Append(entries, "error")

\* a loop whose retries stamp the time of the request too
RetryStampNow(stamp, time) == time

\* the attempt loop does not call _apply_rate_limit: a retry leaves
\* _last_request_time as it is
RetryStamp(stamp, time) == stamp

\* the end of one iteration of the attempt loop that did not return, the
\* task having logged entries so far
\* (sets attempt, requests, html, t_pc, sem, completed, last_end, log,
\* last_request_time)
NextIteration(t, entries) ==
    IF attempt[t] + 1 < MaxAttempts
    THEN /\ attempt' = [attempt EXCEPT ![t] = attempt[t] + 1]
         /\ requests' = [requests EXCEPT ![t] = requests[t] + 1]
         /\ t_pc' = [t_pc EXCEPT ![t] = "attempt"]
         /\ log' = [log EXCEPT ![t] = entries]
         /\ last_request_time' = RetryStamp(last_request_time, now)
         /\ UNCHANGED <<html, sem, completed, last_end>>
    ELSE /\ Return(t, NoneHtml)
         /\ log' = [log EXCEPT ![t] = LogError(entries)]
         /\ last_end' = now
         /\ UNCHANGED <<attempt, requests, last_request_time>>

\* async with self.semaphore, then get_text up to its first suspension
HAcquire(t) ==
    /\ hs_pc = "gather"
    /\ t_pc[t] = "start"
    /\ SemFree(sem)
    /\ sem' = sem - 1
    /\ ApplyRateLimit(t)
    /\ UNCHANGED <<now, last_end, attempt, slept, outcome, response, first_ok, html, log, completed, results, hs_pc>>
    /\ UNCHANGED <<lc_vars, cfg_vars, co_vars, leaf_vars>>

\* the sleep of _apply_rate_limit is over: record the time, start attempt 0
RateLimitWake(t) ==
    /\ t_pc[t] = "rl_sleep"
    /\ now >= wake[t]
    /\ last_request_time' = now
    /\ started' = [started EXCEPT ![t] = now]
    /\ requests' = [requests EXCEPT ![t] = 1]
    /\ t_pc' = [t_pc EXCEPT ![t] = "attempt"]
    /\ UNCHANGED <<now, last_end, attempt, wake, slept, outcome, response, first_ok, html, log>>
    /\ UNCHANGED <<lc_vars, cfg_vars, hs_vars, co_vars, leaf_vars>>

\* the request succeeds with a 2xx status: return response.text
AttemptOk(t) ==
    /\ t_pc[t] = "attempt"
    /\ \E text \in ResponseTexts :
        /\ response' = [response EXCEPT ![t] = text]
        /\ Return(t, text)
    /\ last_end' = now
    /\ outcome' = [outcome EXCEPT ![t] = "ok"]
    /\ first_ok' = [first_ok EXCEPT ![t] = IF first_ok[t] = 0 THEN requests[t] ELSE first_ok[t]]
    /\ UNCHANGED <<now, last_request_time, attempt, wake, started, requests, slept, log, results, hs_pc>>
    /\ UNCHANGED <<lc_vars, cfg_vars, co_vars, leaf_vars>>

\* the request fails: warn, then sleep, go on to the next attempt or give up
AttemptFail(t) ==
    /\ t_pc[t] = "attempt"
    /\ \E kind \in FailureKinds :
        /\ outcome' = [outcome EXCEPT ![t] = "fail"]
        /\ IF ~Caught(kind)
           THEN /\ t_pc' = [t_pc EXCEPT ![t] = "raised"]
                /\ sem' = sem + 1
                /\ completed' = Append(completed, [task |-> t, item |-> RaisedItem])
                /\ last_end' = now
                /\ UNCHANGED <<html, attempt, requests, wake, slept, log, last_request_time>>
           ELSE IF SleepAfter(attempt[t])
           THEN /\ t_pc' = [t_pc EXCEPT ![t] = "backoff"]
                /\ wake' = [wake EXCEPT ![t] = now + Backoff(attempt[t])]
                /\ slept' = [slept EXCEPT ![t] = Append(slept[t], Backoff(attempt[t]))]
                /\ log' = [log EXCEPT ![t] = LogWarning(log[t])]
                /\ UNCHANGED <<html, attempt, requests, sem, completed, last_end, last_request_time>>
           ELSE /\ NextIteration(t, LogWarning(log[t]))
                /\ UNCHANGED <<wake, slept>>
    /\ UNCHANGED <<now, started, response, first_ok, results, hs_pc>>
    /\ UNCHANGED <<lc_vars, cfg_vars, co_vars, leaf_vars>>

\* the backoff sleep is over
BackoffWake(t) ==
    /\ t_pc[t] = "backoff"
    /\ now >= wake[t]
    /\ NextIteration(t, log[t])
    /\ UNCHANGED <<now, wake, started, slept, outcome, response, first_ok, results, hs_pc>>
    /\ UNCHANGED <<lc_vars, cfg_vars, co_vars, leaf_vars>>

\* a task the event loop can run at once, without waiting for a timer or
\* for the network
Ready ==
    \/ completed /= <<>>
    \/ \E t \in Tasks : t_pc[t] = "start" /\ SemFree(sem)
    \/ \E t \in Tasks : t_pc[t] \in {"rl_sleep", "backoff"} /\ now >= wake[t]

\* one second passes: some fetch is in flight and the event loop has nothing
\* to run
Tick ==
    /\ InFlight /= {}
    /\ ~Ready
    /\ now < StartTime + MaxTicks
    /\ now' = now + 1
    /\ UNCHANGED <<last_request_time, last_end, t_pc, attempt, wake, started, requests, slept, outcome, response, first_ok, html, log>>
    /\ UNCHANGED <<lc_vars, cfg_vars, hs_vars, co_vars, leaf_vars>>

(***************************************************************************)
(* DetailScraper.scrape_details                                            *)
(***************************************************************************)
\* if item: an OfferItem is always truthy, None is not
ItemTruthy(item) == item.kind = "offer"

\* item = await coro; if item: results.append(item)
HGather ==
    /\ hs_pc = "gather"
    /\ completed /= <<>>
    /\ IF Head(completed).item.kind = "raised"
       THEN /\ hs_pc' = "raised"
            /\ UNCHANGED results
       ELSE /\ results' = IF ItemTruthy(Head(completed).item)
                          THEN Append(results, Head(completed).item)
                          ELSE results
            /\ UNCHANGED hs_pc
    /\ completed' = Tail(completed)
    /\ UNCHANGED sem
    /\ UNCHANGED <<lc_vars, cfg_vars, client_vars, co_vars, leaf_vars>>

\* a loop that stops at the first task that ended
FirstAwaited == completed = <<>> /\ \E t \in Tasks : t_pc[t] = "done"

\* the for loop over as_completed(tasks) ends when every task was awaited
AllAwaited == completed = <<>> /\ \A t \in Tasks : t_pc[t] = "done"

\* every task was awaited: return results
HSReturn ==
    /\ hs_pc = "gather"
    /\ AllAwaited
    /\ hs_pc' = "returned"
    /\ UNCHANGED <<sem, completed, results>>
    /\ UNCHANGED <<lc_vars, cfg_vars, client_vars, co_vars, leaf_vars>>

HSNext ==
    \/ \E t \in Tasks : HAcquire(t)
    \/ \E t \in Tasks : RateLimitWake(t)
    \/ \E t \in Tasks : AttemptOk(t)
    \/ \E t \in Tasks : AttemptFail(t)
    \/ \E t \in Tasks : BackoffWake(t)
    \/ Tick
    \/ HGather
    \/ HSReturn

\* the harvester is not running
HSIdle ==
    /\ rate_limit_seconds = 0
    /\ max_concurrency = 1
    /\ urls = <<>>
    /\ now = StartTime
    /\ last_request_time = 0
    /\ last_end = -1
    /\ t_pc = <<>>
    /\ attempt = <<>>
    /\ wake = <<>>
    /\ started = <<>>
    /\ requests = <<>>
    /\ slept = <<>>
    /\ outcome = <<>>
    /\ response = <<>>
    /\ first_ok = <<>>
    /\ html = <<>>
    /\ log = <<>>
    /\ sem = 1
    /\ completed = <<>>
    /\ results = <<>>
    /\ hs_pc = "idle"

(***************************************************************************)
(* ScrapeCoordinator.run                                                   *)
(***************************************************************************)
DigitValue == [c \in Digits |->
    CASE c = "0" -> 0 [] c = "1" -> 1 [] c = "2" -> 2 [] c = "3" -> 3 [] c = "4" -> 4
      [] c = "5" -> 5 [] c = "6" -> 6 [] c = "7" -> 7 [] c = "8" -> 8 [] c = "9" -> 9]

\* int(text) for a string of decimal digits
RECURSIVE PyInt(_)
PyInt(text) ==
    IF text = <<>> THEN 0
    ELSE 10 * PyInt(SubSeq(text, 1, Len(text) - 1)) + DigitValue[text[Len(text)]]

\* int(text) raises ValueError unless text is a non-empty string of digits
IntParses(text) == text /= <<>> /\ \A i \in 1..Len(text) : text[i] \in Digits

Infinity == [inf |-> TRUE, n |-> 0]

\* a record without id sorts as if its id were 0
sort_keyZero(offer) ==
    IF offer.id.present /\ offer.id.text /= <<>> /\ IntParses(offer.id.text)
    THEN [inf |-> FALSE, n |-> PyInt(offer.id.text)]
    ELSE [inf |-> FALSE, n |-> 0]

\* int(offer.id) if offer.id else float("inf"); float("inf") on ValueError
sort_key(offer) ==
    IF offer.id.present /\ offer.id.text /= <<>>
    THEN IF IntParses(offer.id.text)
         THEN [inf |-> FALSE, n |-> PyInt(offer.id.text)]
         ELSE Infinity
    ELSE Infinity

\* a comparison that lets equal keys change places
KeyLessOrEqual(a, b) == IF b.inf THEN TRUE ELSE IF a.inf THEN FALSE ELSE a.n <= b.n

\* a < b on sort keys (int against int, int against inf, inf against inf)
KeyLess(a, b) == IF a.inf THEN FALSE ELSE IF b.inf THEN TRUE ELSE a.n < b.n

\* put x behind the last element of the sorted list s that is not above it
RECURSIVE InsertSorted(_, _)
InsertSorted(s, x) ==
    IF s = <<>> THEN <<x>>
    ELSE IF KeyLess(sort_key(x), sort_key(s[Len(s)]))
         THEN Append(InsertSorted(SubSeq(s, 1, Len(s) - 1), x), s[Len(s)])
         ELSE Append(s, x)

\* a sort that drops the records that share their key with another
SortOffersOnePerKey(offers) ==
    SelectSeq(offers, LAMBDA o : \A i \in 1..Len(offers) : sort_key(offers[i]) = sort_key(o) => offers[i] = o)

\* offers.sort(key=sort_key): list.sort is stable
RECURSIVE SortOffers(_)
SortOffers(offers) ==
    IF offers = <<>> THEN <<>>
    ELSE InsertSorted(SortOffers(SubSeq(offers, 1, Len(offers) - 1)), offers[Len(offers)])

\* a test that lets an empty list of offers through
NoOffersNever(offers) == FALSE

\* if not offers
NoOffers(offers) == offers = <<>>

\* if not detail_urls
NoUrls(detail_urls) == detail_urls = <<>>

CoInit ==
    /\ LCInit
    /\ rate_limit_seconds = 0
    /\ max_concurrency \in 1..MaxConc
    /\ urls = <<>>
    /\ now = StartTime
    /\ last_request_time = 0
    /\ last_end = -1
    /\ t_pc = <<>>
    /\ attempt = <<>>
    /\ wake = <<>>
    /\ started = <<>>
    /\ requests = <<>>
    /\ slept = <<>>
    /\ outcome = <<>>
    /\ response = <<>>
    /\ first_ok = <<>>
    /\ html = <<>>
    /\ log = <<>>
    /\ sem = max_concurrency
    /\ completed = <<>>
    /\ results = <<>>
    /\ hs_pc = "idle"
    /\ co_pc = "collect"
    /\ save_log = <<>>
    /\ LeafIdle

\* collect_links has returned: stop if there is no URL, else call
\* scrape_details(detail_urls), which creates one task per URL
CoAfterCollect ==
    /\ co_pc = "collect"
    /\ lc_pc = "returned"
    /\ IF NoUrls(lc_result)
       THEN /\ co_pc' = "done"
            /\ UNCHANGED <<urls, t_pc, attempt, wake, started, requests, slept, outcome, response, first_ok, html, log, hs_pc>>
       ELSE /\ co_pc' = "harvest"
            /\ urls' = lc_result
            /\ t_pc' = [t \in 1..Len(lc_result) |-> "start"]
            /\ attempt' = [t \in 1..Len(lc_result) |-> 0]
            /\ wake' = [t \in 1..Len(lc_result) |-> 0]
            /\ started' = [t \in 1..Len(lc_result) |-> -1]
            /\ requests' = [t \in 1..Len(lc_result) |-> 0]
            /\ slept' = [t \in 1..Len(lc_result) |-> <<>>]
            /\ outcome' = [t \in 1..Len(lc_result) |-> "none"]
            /\ response' = [t \in 1..Len(lc_result) |-> NoneHtml]
            /\ first_ok' = [t \in 1..Len(lc_result) |-> 0]
            /\ html' = [t \in 1..Len(lc_result) |-> NoneHtml]
            /\ log' = [t \in 1..Len(lc_result) |-> <<>>]
            /\ hs_pc' = "gather"
    \* the locals of collect_links are gone
    /\ collected_links' = {}
    /\ visited_pages' = {}
    /\ pages_to_visit' = <<>>
    /\ fetch_log' = <<>>
    /\ fetch_failed' = {}
    /\ enqueued' = <<>>
    /\ offered' = {}
    /\ linked' = {}
    /\ lc_pc' = "idle"
    /\ UNCHANGED <<site, max_items, lc_result>>
    /\ UNCHANGED <<rate_limit_seconds, max_concurrency, now, last_request_time, last_end>>
    /\ UNCHANGED <<sem, completed, results, save_log>>
    /\ UNCHANGED leaf_vars

\* async with self.semaphore, then the call of HttpClient.get_text
CoAcquire(t) ==
    /\ co_pc = "harvest"
    /\ hs_pc = "gather"
    /\ t_pc[t] = "start"
    /\ SemFree(sem)
    /\ sem' = sem - 1
    /\ t_pc' = [t_pc EXCEPT ![t] = "attempt"]
    /\ UNCHANGED <<now, last_request_time, last_end, attempt, wake, started, requests, slept, outcome, response, first_ok, html, log>>
    /\ UNCHANGED <<completed, results, hs_pc>>
    /\ UNCHANGED <<lc_vars, cfg_vars, co_vars, leaf_vars>>

\* get_text ends: it returns "" or a page, or its attempts fail and the
\* exception is caught (it returns None) or leaves get_text and the task
CoFetch(t) ==
    /\ co_pc = "harvest"
    /\ t_pc[t] = "attempt"
    /\ \/ \E h \in ResponseTexts : Return(t, h)
       \/ \E kind \in FailureKinds :
            IF Caught(kind)
            THEN Return(t, NoneHtml)
            ELSE /\ t_pc' = [t_pc EXCEPT ![t] = "raised"]
                 /\ sem' = sem + 1
                 /\ completed' = Append(completed, [task |-> t, item |-> RaisedItem])
                 /\ UNCHANGED html
    /\ UNCHANGED <<now, last_request_time, last_end, attempt, wake, started, requests, slept, outcome, response, first_ok, log>>
    /\ UNCHANGED <<results, hs_pc>>
    /\ UNCHANGED <<lc_vars, cfg_vars, co_vars, leaf_vars>>

\* scrape_details has returned: stop if there is no offer, else sort and
\* save_csv then save_jsonl
CoFinish ==
    /\ co_pc = "harvest"
    /\ hs_pc \in {"returned", "raised"}
    /\ IF hs_pc = "raised"
       THEN /\ co_pc' = "raised"
            /\ UNCHANGED save_log
       ELSE IF NoOffers(results)
       THEN /\ co_pc' = "done"
            /\ UNCHANGED save_log
       ELSE /\ co_pc' = "done"
            /\ save_log' = <<[dest |-> "csv", items |-> SortOffers(results)],
                             [dest |-> "jsonl", items |-> SortOffers(results)]>>
    /\ hs_pc' = "idle"
    /\ UNCHANGED <<sem, completed, results>>
    /\ UNCHANGED <<lc_vars, cfg_vars, client_vars, leaf_vars>>

CoNext ==
    \/ LCSkip
    \/ LCFetchFail
    \/ LCFetchOk
    \/ LCReturn
    \/ CoAfterCollect
    \/ \E t \in Tasks : CoAcquire(t)
    \/ \E t \in Tasks : CoFetch(t)
    \/ HGather
    \/ HSReturn
    \/ CoFinish

(***************************************************************************)
(* Text of a detail page.  A text block is the sequence of its words, which *)
(* single spaces separate; the empty string is the empty sequence.          *)
(***************************************************************************)
W9 == "xxxxxxxxx"

W9b == "yyyyyyyyy"

W60 == "xxxxxxxxxxxxxxxxxxxxxxxxxxxxxxxxxxxxxxxxxxxxxxxxxxxxxxxxxxxx"

W60b == "yyyyyyyyyyyyyyyyyyyyyyyyyyyyyyyyyyyyyyyyyyyyyyyyyyyyyyyyyyyy"

EmptyStr == <<>>

\* len(text): the characters of the words and the spaces between them
RECURSIVE BlockLen(_)
BlockLen(b) ==
    IF b = <<>> THEN 0
    ELSE IF Len(b) = 1 THEN Len(b[1])
    ELSE Len(b[1]) + 1 + BlockLen(Tail(b))

\* the words the pattern oferta\b matches whole, whatever their case
OfertaWords == {"oferta", "Oferta", "OFERTA"}

\* re.match(r"^oferta\b", block, re.IGNORECASE)
StartsWithOferta(b) == b /= <<>> /\ b[1] \in OfertaWords

\* re.search(OFFER_KEYWORDS, block, re.IGNORECASE), the pattern being
\* ^oferta\b | 2\s*por\s*1 | dois\s*por\s*um | 2x1
MatchesKeywords(b) ==
    \/ StartsWithOferta(b)
    \/ \E i \in 1..Len(b) : b[i] \in {"2x1", "2X1", "2por1", "doisporum"}
    \/ \E i \in 1..(Len(b) - 2) :
        /\ b[i] \in {"2", "dois", "Dois"}
        /\ b[i + 1] \in {"por", "Por"}
        /\ b[i + 2] = (IF b[i] = "2" THEN "1" ELSE "um")

\* min(candidates, key=len): the first of the shortest
MinByLen(l) ==
    l[CHOOSE i \in 1..Len(l) :
        \A j \in 1..Len(l) :
            /\ BlockLen(l[i]) <= BlockLen(l[j])
            /\ (BlockLen(l[i]) = BlockLen(l[j]) => i <= j)]

\* max(candidates, key=len): the first of the longest
MaxByLen(l) ==
    l[CHOOSE i \in 1..Len(l) :
        \A j \in 1..Len(l) :
            /\ BlockLen(l[i]) >= BlockLen(l[j])
            /\ (BlockLen(l[i]) = BlockLen(l[j]) => i <= j)]

(***************************************************************************)
(* DoisPorUmDetailParser._extract_offer and _extract_description           *)
(***************************************************************************)
\* a first tier that takes every promotional block
OfferTierOneAny(bs) == SelectSeq(bs, MatchesKeywords)

\* first priority: the blocks that start with "oferta"
OfferTierOne(bs) == SelectSeq(bs, StartsWithOferta)

\* a second tier that takes every block
OfferTierTwoAll(bs) == bs

\* second priority: the blocks that contain an offer keyword
OfferTierTwo(bs) == SelectSeq(bs, MatchesKeywords)

_extract_offer(bs) ==
    IF OfferTierOne(bs) /= <<>> THEN MinByLen(OfferTierOne(bs))
    ELSE IF OfferTierTwo(bs) /= <<>> THEN MinByLen(OfferTierTwo(bs))
    ELSE EmptyStr

\* a test that lets keyword blocks through
NonOfferPrefixOnly(b) == ~StartsWithOferta(b)

\* not re.match(^oferta\b) and not re.search(OFFER_KEYWORDS)
NonOffer(b) == ~StartsWithOferta(b) /\ ~MatchesKeywords(b)

\* len(block) > 120 and not an offer block
LongClean(b) == BlockLen(b) > 120 /\ NonOffer(b)

_extract_description(bs) ==
    IF SelectSeq(bs, LongClean) /= <<>> THEN MaxByLen(SelectSeq(bs, LongClean))
    ELSE IF SelectSeq(bs, NonOffer) /= <<>> THEN MaxByLen(SelectSeq(bs, NonOffer))
    ELSE EmptyStr

(***************************************************************************)
(* DoisPorUmDetailParser._extract_address                                  *)
(***************************************************************************)
\* the orders in which a set can be enumerated
RECURSIVE Orders(_)
Orders(S) ==
    IF S = {} THEN {<<>>}
    ELSE UNION {{<<x>> \o o : o \in Orders(S \ {x})} : x \in S}

\* words the pattern \b\d{5}-\d{3}\b matches
CepWords == {"01310-100", "01310-200", "01310-300", "01310-400", "01310-500", "01310-600", "01310-700"}

\* re.search(CEP_PATTERN, block)
HasCep(b) == \E i \in 1..Len(b) : b[i] \in CepWords

\* words that hold one of Rua, Av, R., Al, Largo, Praça, Praca, Rod.
\* somewhere, in any case
IndicatorWords == {"Rua", "Av.", "Largo", "alimentos"}

\* re.search(ADDRESS_INDICATORS, block, re.IGNORECASE)
HasIndicator(b) == \E i \in 1..Len(b) : b[i] \in IndicatorWords

\* words made of capital letters only
CapsWords == {"LOJA", "FILIAL"}

\* words made of capital letters and a final colon
CapsColonWords == {"LOJA:", "FILIAL:", "SUL:"}

\* the number of words ^[A-Z\s]+: matches at the start of a block, 0 if
\* it does not match
LabelWords(b) ==
    IF \E k \in 1..Len(b) : b[k] \in CapsColonWords /\ \A j \in 1..(k - 1) : b[j] \in CapsWords
    THEN CHOOSE k \in 1..Len(b) :
            /\ b[k] \in CapsColonWords
            /\ \A j \in 1..(k - 1) : b[j] \in CapsWords
    ELSE 0

\* re.sub(r"^[A-Z\s]+:", "", addr): what stays keeps the space that
\* followed the colon, written as an empty first word
Core(b) ==
    IF LabelWords(b) = 0 THEN b
    ELSE IF LabelWords(b) = Len(b) THEN EmptyStr
    ELSE <<"">> \o SubSeq(b, LabelWords(b) + 1, Len(b))

\* the loop over cep_blocks: keep an address unless its core was seen
RECURSIVE UniqueByCore(_, _)
UniqueByCore(l, seen) ==
    IF l = <<>> THEN <<>>
    ELSE IF Core(Head(l)) \in seen THEN UniqueByCore(Tail(l), seen)
    ELSE <<Head(l)>> \o UniqueByCore(Tail(l), seen \cup {Core(Head(l))})

\* the place of b in a list sorted by length: behind every entry that is
\* not longer
RECURSIVE InsertByLen(_, _)
InsertByLen(b, sorted) ==
    IF sorted = <<>> THEN <<b>>
    ELSE IF BlockLen(Head(sorted)) <= BlockLen(b)
    THEN <<Head(sorted)>> \o InsertByLen(b, Tail(sorted))
    ELSE <<b>> \o sorted

\* list.sort(key=len): stable
RECURSIVE SortByLen(_)
SortByLen(l) ==
    IF l = <<>> THEN <<>>
    ELSE InsertByLen(l[Len(l)], SortByLen(SubSeq(l, 1, Len(l) - 1)))

\* " | ".join(entries)
RECURSIVE Join(_)
Join(l) ==
    IF l = <<>> THEN EmptyStr
    ELSE IF Len(l) = 1 THEN l[1]
    ELSE l[1] \o <<"|">> \o Join(Tail(l))

\* re.search(CEP_PATTERN, block) and len(block) < 150
CepBlock(b) == HasCep(b) /\ BlockLen(b) < 150

\* re.search(ADDRESS_INDICATORS, block) and len(block) < 150
StreetBlock(b) == HasIndicator(b) /\ BlockLen(b) < 150

\* a join without a limit
CepJoinedAll(l) == l

\* unique_addresses[:5]
CepJoined(l) == Prefix(l, 5)

\* unique_addresses[:3]
StreetJoined(l) == Prefix(l, 3)

\* the results _extract_address can give: the fallback enumerates a set,
\* in an order the interpreter picks
_extract_address(bs) ==
    IF Len(SelectSeq(bs, CepBlock)) > 1
    THEN {Join(CepJoined(SortByLen(UniqueByCore(SelectSeq(bs, CepBlock), {}))))}
    ELSE IF Len(SelectSeq(bs, CepBlock)) = 1
    THEN {SelectSeq(bs, CepBlock)[1]}
    ELSE IF SelectSeq(bs, StreetBlock) /= <<>>
    THEN {Join(StreetJoined(SortByLen(o))) :
            o \in Orders({SelectSeq(bs, StreetBlock)[i] : i \in 1..Len(SelectSeq(bs, StreetBlock))})}
    ELSE {EmptyStr}

(***************************************************************************)
(* DoisPorUmDetailParser._extract_phone                                    *)
(***************************************************************************)
\* words PHONE_PATTERN matches, with the groups it captures
PhoneWords == {"(11) 3333-4444", "11 3333-4444", "(11) 98888-7777", "(21) 3333-4444", "21 98888-7777"}

PhoneGroups(w) ==
    CASE w = "(11) 3333-4444" -> <<(<<"1", "1">>), (<<"3", "3", "3", "3">>), (<<"4", "4", "4", "4">>)>>
      [] w = "11 3333-4444" -> <<(<<"1", "1">>), (<<"3", "3", "3", "3">>), (<<"4", "4", "4", "4">>)>>
      [] w = "(11) 98888-7777" -> <<(<<"1", "1">>), (<<"9", "8", "8", "8", "8">>), (<<"7", "7", "7", "7">>)>>
      [] w = "(21) 3333-4444" -> <<(<<"2", "1">>), (<<"3", "3", "3", "3">>), (<<"4", "4", "4", "4">>)>>
      [] w = "21 98888-7777" -> <<(<<"2", "1">>), (<<"9", "8", "8", "8", "8">>), (<<"7", "7", "7", "7">>)>>

\* f"({match[0]}) {match[1]}-{match[2]}", as its characters
FormatPhone(m) == <<"(">> \o m[1] \o <<")", " ">> \o m[2] \o <<"-">> \o m[3]

\* the formatted phones of re.findall(PHONE_PATTERN, text)
FindPhones(text) == {FormatPhone(PhoneGroups(text[i])) : i \in {j \in 1..Len(text) : text[j] \in PhoneWords}}

\* the code point of a character of a formatted phone
CharCode(c) ==
    CASE c = " " -> 32
      [] c = "(" -> 40
      [] c = ")" -> 41
      [] c = "-" -> 45
      [] c = "|" -> 124
      [] c \in Digits -> 48 + (CHOOSE d \in 0..9 : <<"0", "1", "2", "3", "4", "5", "6", "7", "8", "9">>[d + 1] = c)

\* a < b for Python strings
RECURSIVE StrLess(_, _)
StrLess(a, b) ==
    IF b = <<>> THEN FALSE
    ELSE IF a = <<>> THEN TRUE
    ELSE IF Head(a) = Head(b) THEN StrLess(Tail(a), Tail(b))
    ELSE CharCode(Head(a)) < CharCode(Head(b))

\* sorted(phone_candidates)
RECURSIVE Sorted(_)
Sorted(S) ==
    IF S = {} THEN <<>>
    ELSE LET least == CHOOSE x \in S : \A y \in S \ {x} : StrLess(x, y)
         IN <<least>> \o Sorted(S \ {least})

\* " | ".join(phones), as characters
RECURSIVE JoinChars(_)
JoinChars(l) ==
    IF l = <<>> THEN EmptyStr
    ELSE IF Len(l) = 1 THEN l[1]
    ELSE l[1] \o <<" ", "|", " ">> \o JoinChars(Tail(l))

\* a first tier that scans every block
AddressBearingAny(b) == TRUE

\* re.search(CEP_PATTERN, block) or re.search(ADDRESS_INDICATORS, block)
AddressBearing(b) == HasCep(b) \/ HasIndicator(b)

\* the phones found in the address-bearing blocks
AddressPhones(bs) ==
    UNION {FindPhones(bs[i]) : i \in {j \in 1..Len(bs) : AddressBearing(bs[j])}}

\* raw stands for the text of the whole page
_extract_phone(bs, raw) ==
    IF AddressPhones(bs) /= {} THEN JoinChars(Sorted(AddressPhones(bs)))
    ELSE IF FindPhones(raw) /= {} THEN JoinChars(Sorted(FindPhones(raw)))
    ELSE EmptyStr

(***************************************************************************)
(* The parsed page (soup): the texts of its p, li, div, span and h3..h6    *)
(* elements, the words of the rest of the page, the elements the title      *)
(* selectors find, its anchors and its img elements.                        *)
(***************************************************************************)
Absent == [present |-> FALSE, text |-> EmptyStr]

Element(t) == [present |-> TRUE, text |-> t]

EmptyDoc ==
    [texts |-> {}, other |-> <<>>,
     h1 |-> Absent, h2 |-> Absent, testid |-> Absent, cls |-> Absent, title |-> Absent,
     links |-> <<>>, imgs |-> <<>>]

\* the text of the whole page, in which the fallback of _extract_phone searches
RECURSIVE FlattenTexts(_)
FlattenTexts(S) ==
    IF S = {} THEN <<>>
    ELSE LET t == CHOOSE x \in S : TRUE IN t \o FlattenTexts(S \ {t})

RawText(doc) == FlattenTexts(doc.texts) \o doc.other

\* _extract_text_blocks: the texts longer than 10 characters, as a set;
\* list(set(blocks)) then enumerates it in some order
TextBlocks(doc) == {t \in doc.texts : BlockLen(t) > 10}

\* if element: select_one gives None or a Tag, and a Tag is always true
ElementTruthy(e) == e.present

\* selectors, in priority order: h1, h2, [data-testid*="title"],
\* [class*="title"], title
Selected(doc) == <<doc.h1, doc.h2, doc.testid, doc.cls, doc.title>>

_extract_title(doc) ==
    IF \E i \in 1..Len(Selected(doc)) : ElementTruthy(Selected(doc)[i])
    THEN Selected(doc)[CHOOSE i \in 1..Len(Selected(doc)) :
            /\ ElementTruthy(Selected(doc)[i])
            /\ \A j \in 1..(i - 1) : ~ElementTruthy(Selected(doc)[j])].text
    ELSE EmptyStr

BASE_URL == "https://doisporum.net"

\* the scheme and host an absolute URL starts with
Origins == {BASE_URL, "https://cdn.example", "https://partner.example"}

\* href.startswith(("http://", "https://")) and "doisporum.net" not in href
External(href) == href /= <<>> /\ href[1] \in Origins \ {BASE_URL}

\* the first external link, or ""
_extract_website(doc) ==
    IF \E i \in 1..Len(doc.links) : External(doc.links[i])
    THEN doc.links[CHOOSE i \in 1..Len(doc.links) :
            /\ External(doc.links[i])
            /\ \A j \in 1..(i - 1) : ~External(doc.links[j])]
    ELSE EmptyStr

\* urljoin(BASE_URL, u): an absolute URL stays, a path is put behind the base
urljoin(base, u) == IF u /= <<>> /\ u[1] \in Origins THEN u ELSE <<base>> \o u

\* url.strip().split()[0] raises IndexError on a blank srcset candidate
SrcsetRaises(img) == \E k \in 1..Len(img.srcset) : img.srcset[k] = EmptyStr

\* the last srcset candidate, or src when srcset is missing or empty
ImageUrl(img) == IF img.srcset /= <<>> THEN img.srcset[Len(img.srcset)] ELSE img.src

\* a collection that keeps every image, in document order
ImagesListed(doc) ==
    {[i \in 1..Len(SelectSeq(doc.imgs, LAMBDA g : ImageUrl(g) /= EmptyStr)) |->
        urljoin(BASE_URL, ImageUrl(SelectSeq(doc.imgs, LAMBDA g : ImageUrl(g) /= EmptyStr)[i]))]}

\* images = set(); ...; return list(images): the enumerations of the set
_extract_images(doc) ==
    Orders({urljoin(BASE_URL, ImageUrl(doc.imgs[i])) :
                i \in {j \in 1..Len(doc.imgs) : ImageUrl(doc.imgs[j]) /= EmptyStr}})

RaisedRecord ==
    [kind |-> "raised", id |-> NoneId, url |-> <<>>, title |-> EmptyStr, offer |-> EmptyStr,
     description |-> EmptyStr, address |-> EmptyStr, phone |-> EmptyStr, website |-> EmptyStr,
     images |-> <<>>]

\* DoisPorUmDetailParser.parse, given the order bs in which the text blocks
\* were enumerated: the records it can return
DetailParse(doc, url, bs) ==
    IF \E i \in 1..Len(doc.imgs) : SrcsetRaises(doc.imgs[i])
    THEN {RaisedRecord}
    ELSE {[kind |-> "offer", id |-> ExtractId(url), url |-> url,
           title |-> _extract_title(doc),
           offer |-> _extract_offer(bs),
           description |-> _extract_description(bs),
           address |-> a,
           phone |-> _extract_phone(bs, RawText(doc)),
           website |-> _extract_website(doc),
           images |-> im] : a \in _extract_address(bs), im \in _extract_images(doc)}

(***************************************************************************)
(* Detail pages the parser is run on.                                      *)
(***************************************************************************)
\* subsets of at most n elements
UpTo(S, n) == {T \in SUBSET S : Cardinality(T) <= n}

\* offer, keyword, long and short texts; two pairs have the same length
OfferTexts ==
    {<<"Oferta", W9>>, <<"OFERTA", W9b>>, <<"Oferta", W9, W60>>,
     <<W9, "2x1">>, <<"dois", "por", "um", W9>>, <<"Ofertas", W9>>,
     <<W60, W60>>, <<W60, W60b>>, <<W60, W60, W9>>, <<W60, W60, W60, "2x1">>,
     <<W9, W9>>, <<W9>>}

\* blocks with a postal code, shorter than 150 characters; two differ by
\* their label only, two have the same length
CepTexts ==
    {<<"Rua", W9, "01310-100">>, <<"LOJA:", "Rua", W9, "01310-100">>,
     <<"FILIAL:", "Rua", W9, "01310-100">>, <<"Av.", W9, "01310-200">>,
     <<"Largo", W9, "01310-300">>, <<"Rua", W9, W9, "01310-400">>,
     <<"Rua", W9, W9b, W9, "01310-500">>}

\* blocks with a street indicator and no postal code; one is too long
StreetTexts ==
    {<<"Rua", W9>>, <<"Av.", W9>>, <<"Largo", W9, W9>>, <<"alimentos", W9, W9b>>,
     <<"Rua", W60, W60, W60>>}

\* postal-code blocks, short and long, among street blocks and plain text
MixTexts ==
    {<<"Rua", W9, "01310-100">>, <<"Rua", W60, W60, W9, "01310-600", W9b>>,
     <<"Rua", W9>>, <<"Largo", W9, W9>>, <<W9, W9>>}

\* blocks with and without phones, address-bearing or not
PhoneTexts ==
    {<<"Rua", W9, "(11) 3333-4444">>, <<W9, "01310-100", "11 3333-4444">>,
     <<"Av.", W9, "(21) 3333-4444", "(11) 98888-7777">>, <<W9, W9b, "21 98888-7777">>,
     <<"Rua", W9, W9b>>, <<"(11) 98888-7777">>}

\* what the page says outside its text blocks
OtherTexts == {<<>>, <<"(21) 3333-4444">>, <<"11 3333-4444", "(21) 3333-4444">>}

\* an element a selector finds: none, one without text, one with text
ElementsOf(t) == {Absent, Element(EmptyStr), Element(<<t>>)}

ImgElements ==
    {[srcset |-> <<>>, src |-> <<"/a.jpg">>],
     [srcset |-> <<>>, src |-> <<BASE_URL, "/a.jpg">>],
     [srcset |-> <<(<<"/s1.jpg">>), (<<"/s2.jpg">>)>>, src |-> <<"/a.jpg">>],
     [srcset |-> <<>>, src |-> EmptyStr],
     [srcset |-> <<(<<"/s1.jpg">>), EmptyStr>>, src |-> <<"/a.jpg">>],
     [srcset |-> <<>>, src |-> <<"https://cdn.example", "/b.jpg">>]}

LinkLists ==
    {<<>>,
     <<(<<"/rel">>), (<<BASE_URL, "/x">>), (<<"https://partner.example">>), (<<"https://cdn.example">>)>>}

OfferDocs == {[EmptyDoc EXCEPT !.texts = T] : T \in UpTo(OfferTexts, MaxTexts)}

CepDocs == {[EmptyDoc EXCEPT !.texts = T] : T \in UpTo(CepTexts, MaxCepTexts)}

StreetDocs == {[EmptyDoc EXCEPT !.texts = T] : T \in SUBSET StreetTexts}

MixDocs == {[EmptyDoc EXCEPT !.texts = T] : T \in UpTo(MixTexts, MaxTexts)}

PhoneDocs ==
    {[EmptyDoc EXCEPT !.texts = T, !.other = o] : T \in UpTo(PhoneTexts, MaxTexts), o \in OtherTexts}

TitleDocs ==
    {[EmptyDoc EXCEPT !.h1 = a, !.h2 = b, !.testid = c, !.cls = d, !.title = e] :
        a \in ElementsOf("H1"), b \in ElementsOf("H2"), c \in ElementsOf("TestId"),
        d \in ElementsOf("Class"), e \in ElementsOf("Title")}

ImageDocs ==
    {[EmptyDoc EXCEPT !.imgs = g, !.links = l] :
        g \in UNION {[1..n -> ImgElements] : n \in 0..MaxImgs}, l \in LinkLists}

\* parse is about to be called on a page and the URL it was fetched from
DPInit ==
    /\ \/ dp_html \in OfferDocs \cup CepDocs \cup StreetDocs \cup MixDocs \cup PhoneDocs \cup TitleDocs
          /\ dp_url = <<"1", "0">>
       \/ dp_html \in ImageDocs /\ dp_url \in DetailUrls
    /\ dp_records = <<>>

\* one call of parse: the text blocks are enumerated in some order
DPParse ==
    /\ dp_html /= <<>>
    /\ Len(dp_records) < MaxParses
    /\ \E bs \in Orders(TextBlocks(dp_html)) :
        \E r \in DetailParse(dp_html, dp_url, bs) : dp_records' = Append(dp_records, r)
    /\ UNCHANGED <<dp_html, dp_url>>
    /\ UNCHANGED <<lc_vars, cfg_vars, client_vars, hs_vars, co_vars, lp_vars, repo_vars>>

(***************************************************************************)
(* DoisPorUmListPageParser.extract_detail_links.  An href is the sequence  *)
(* of its parts: the text "/home/details/", single characters, an origin.  *)
(***************************************************************************)
\* a pattern without its end anchor
MatchesDetailHrefOpen(href) ==
    /\ href /= <<>>
    /\ href[1] = "/home/details/"
    /\ DigitPrefix(Tail(href)) /= <<>>

\* re.match(DETAIL_HREF_PATTERN, href), the pattern being
\* ^/home/details/\d+/?$
MatchesDetailHref(href) ==
    /\ href /= <<>>
    /\ href[1] = "/home/details/"
    /\ DigitPrefix(Tail(href)) /= <<>>
    /\ SubSeq(Tail(href), Len(DigitPrefix(Tail(href))) + 1, Len(href) - 1) \in {<<>>, <<"/">>}

\* the hrefs an anchor of a list page can have
Hrefs ==
    {<<"/home/details/", "1">>, <<"/home/details/", "1", "/">>, <<"/home/details/", "1", "2">>,
     <<"/home/details/", "2">>, <<"/home/details/">>, <<"/home/details/", "/">>,
     <<"/home/details/", "1", "/", "x">>, <<"/home/details/", "x", "1">>,
     <<"/x", "/home/details/", "1">>, <<BASE_URL, "/home/details/", "1">>}

\* links: the absolute URL of every anchor whose href matches, as a set
DetailLinks(anchors) ==
    {urljoin(BASE_URL, anchors[i]) : i \in {j \in 1..Len(anchors) : MatchesDetailHref(anchors[j])}}

\* a list page with some anchors is about to be parsed
LPInit ==
    /\ lp_html \in UNION {[1..n -> Hrefs] : n \in 0..MaxAnchors}
    /\ lp_links = <<>>
    /\ lp_pc = "start"

\* extract_detail_links: return list(set(links))
LPExtract ==
    /\ lp_pc = "start"
    /\ lp_links' \in Orders(DetailLinks(lp_html))
    /\ lp_pc' = "returned"
    /\ UNCHANGED lp_html
    /\ UNCHANGED <<lc_vars, cfg_vars, client_vars, hs_vars, co_vars, parser_vars, repo_vars>>

(***************************************************************************)
(* PandasOfferRepository.save_csv and save_jsonl                           *)
(***************************************************************************)
\* the lists of offers the repository can be given
ItemLists ==
    UNION {{[i \in 1..Len(l) |-> parse(DetailPage, l[i])] : l \in ListsOf(S)} : S \in UpTo(DetailUrls, MaxUrls)}

\* a test that never finds the list empty
NoItemsNever(items) == FALSE

\* if not items
NoItems(items) == items = <<>>

\* save_csv / save_jsonl: warn and return on an empty list, else write
\* the file (sets save_log, repo_warnings)
Save(dest, items) ==
    IF NoItems(items)
    THEN /\ repo_warnings' = Append(repo_warnings, dest)
         /\ UNCHANGED save_log
    ELSE /\ save_log' = Append(save_log, [dest |-> dest, items |-> items])
         /\ UNCHANGED repo_warnings

RepoSaveCsv ==
    /\ co_pc = "repository"
    /\ Len(save_log) + Len(repo_warnings) < MaxSaves
    /\ \E items \in ItemLists : Save("csv", items)
    /\ UNCHANGED co_pc
    /\ UNCHANGED <<lc_vars, cfg_vars, client_vars, hs_vars, parser_vars, lp_vars>>

RepoSaveJsonl ==
    /\ co_pc = "repository"
    /\ Len(save_log) + Len(repo_warnings) < MaxSaves
    /\ \E items \in ItemLists : Save("jsonl", items)
    /\ UNCHANGED co_pc
    /\ UNCHANGED <<lc_vars, cfg_vars, client_vars, hs_vars, parser_vars, lp_vars>>

RepoNext == RepoSaveCsv \/ RepoSaveJsonl

(***************************************************************************)
(* Specifications                                                          *)
(***************************************************************************)
\* collect_links alone
InitCollector == (LCInit \/ LCScenarioInit) /\ HSIdle /\ co_pc = "collect" /\ save_log = <<>> /\ LeafIdle

SpecCollector == InitCollector /\ [][LCNext]_vars

\* collect_links with any integer as its cap
InitCollectorAnyCap == LCAnyCapInit /\ HSIdle /\ co_pc = "collect" /\ save_log = <<>> /\ LeafIdle

SpecCollectorAnyCap == InitCollectorAnyCap /\ [][LCNext]_vars

\* collect_links where every fetch returns and the loop goes on
SpecCollectorFair == InitCollector /\ [][LCNext]_vars /\ WF_vars(LCNext)

\* scrape_details alone, on the real client
InitHarvest == HSInit /\ LCIdle /\ co_pc = "harvest" /\ save_log = <<>> /\ LeafIdle

SpecHarvest == InitHarvest /\ [][HSNext]_vars

SpecCoordinator == CoInit /\ [][CoNext]_vars

\* the event loop runs a task that can run, and every request ends (each
\* has a timeout), so a step that stays possible is taken
SpecCoordinatorFair == CoInit /\ [][CoNext]_vars /\ WF_vars(CoNext)

\* parse alone, on a page
InitParser == DPInit /\ LCIdle /\ HSIdle /\ co_pc = "idle" /\ save_log = <<>> /\ LPIdle /\ RepoIdle

SpecParser == InitParser /\ [][DPParse]_vars

\* extract_detail_links alone, on a list page
InitListParser == LPInit /\ LCIdle /\ HSIdle /\ co_pc = "idle" /\ save_log = <<>> /\ DPIdle /\ RepoIdle

SpecListParser == InitListParser /\ [][LPExtract]_vars

\* the repository alone: no file written, nothing logged
InitRepository == RepoIdle /\ LCIdle /\ HSIdle /\ co_pc = "repository" /\ save_log = <<>> /\ DPIdle /\ LPIdle

SpecRepository == InitRepository /\ [][RepoNext]_vars

(***************************************************************************)
(* Properties of collect_links (SpecCollector)                             *)
(***************************************************************************)
\* C1: the discovered set never holds more than max_items URLs, and the
\* returned list never has more than max_items entries.
C1_CapNeverExceeded ==
    /\ Cardinality(collected_links) <= max_items
    /\ Len(lc_result) <= max_items

\* collect_links returned a full list while pages were still queued
C1_Witness ==
    /\ lc_pc = "returned"
    /\ max_items >= 2
    /\ Len(lc_result) = max_items
    /\ pages_to_visit /= <<>>

\* C2: no list page is handed to the fetcher twice in one run.
C2_NoPageFetchedTwice ==
    \A i, j \in 1..Len(fetch_log) : fetch_log[i] = fetch_log[j] => i = j

\* a page that was enqueued twice has been fetched and is still in the queue
C2_Witness ==
    /\ Len(fetch_log) >= 2
    /\ \E i \in 1..Len(pages_to_visit) :
        /\ pages_to_visit[i] \in visited_pages
        /\ \E k \in 1..Len(fetch_log) : fetch_log[k] = pages_to_visit[i]

(***************************************************************************)
(* Properties of get_text and scrape_details (SpecHarvest)                 *)
(***************************************************************************)
Distance(a, b) == IF a >= b THEN a - b ELSE b - a

\* C3: two calls that share the client never begin their network request
\* within rate_limit_seconds of each other.
C3_FetchStartsSpaced ==
    \A t1, t2 \in Tasks :
        (t1 /= t2 /\ started[t1] >= 0 /\ started[t2] >= 0)
            => Distance(started[t1], started[t2]) >= rate_limit_seconds

\* C4: a call makes at most 3 network attempts, and it gives up only after
\* the third: a failed attempt is followed by another while fewer than 3
\* were made.
C4_ThreeAttempts ==
    \A t \in Tasks :
        /\ requests[t] <= 3
        /\ (t_pc[t] = "backoff" => requests[t] < 3)
        /\ (t_pc[t] = "done" /\ outcome[t] = "fail" => requests[t] = 3)

\* a call has failed three times and ended
C4_Witness ==
    \E t \in Tasks : t_pc[t] = "done" /\ outcome[t] = "fail" /\ requests[t] = 3

\* C5: a call whose attempts all fail returns None and raises nothing; None
\* is returned in no other case, so it differs from the empty page of a
\* successful fetch.
C5_FailureIsNone ==
    \A t \in Tasks :
        /\ t_pc[t] /= "raised"
        /\ (t_pc[t] = "done" => (outcome[t] = "fail" <=> html[t] = NoneHtml))
        /\ (t_pc[t] = "done" /\ outcome[t] = "ok" /\ response[t] = EmptyHtml => html[t] = EmptyHtml)

\* one call failed for good and returned None, another fetched an empty page
C5_Witness ==
    \E t1, t2 \in Tasks :
        /\ t_pc[t1] = "done" /\ outcome[t1] = "fail" /\ html[t1] = NoneHtml
        /\ t_pc[t2] = "done" /\ outcome[t2] = "ok" /\ html[t2] = EmptyHtml

\* C6: the sleep after the failed attempt i (0-based) is 1 + i seconds for
\* i < 2, and there is no sleep after the third failure: a call that fails
\* three times has slept 1 then 2 seconds.
C6_LinearBackoff ==
    \A t \in Tasks :
        /\ Len(slept[t]) <= 2
        /\ \A i \in 1..Len(slept[t]) : slept[t][i] = 1 + (i - 1)
        /\ (t_pc[t] = "backoff" =>
                /\ attempt[t] < 2
                /\ Len(slept[t]) = attempt[t] + 1
                /\ wake[t] - now >= 0
                /\ wake[t] - now <= 1 + attempt[t])
        /\ (t_pc[t] = "done" /\ outcome[t] = "fail" => slept[t] = <<1, 2>>)

\* a call failed three times at once and ended 1 + 2 seconds after its start
C6_Witness ==
    \E t \in Tasks :
        /\ t_pc[t] = "done" /\ outcome[t] = "fail"
        /\ slept[t] = <<1, 2>>
        /\ now = started[t] + 3

\* C7: a call returns the text of its first successful attempt and makes no
\* attempt after it; a third attempt runs no sooner than 1 + 2 seconds after
\* the first began.
C7_FirstSuccessReturned ==
    \A t \in Tasks :
        /\ (t_pc[t] = "done" /\ outcome[t] = "ok" =>
                /\ html[t] = response[t]
                /\ first_ok[t] \in 1..3
                /\ requests[t] = first_ok[t])
        /\ (requests[t] = 3 => now >= started[t] + 1 + 2)

\* a call succeeded at its third attempt and returned that page
C7_Witness ==
    \E t \in Tasks :
        /\ t_pc[t] = "done" /\ outcome[t] = "ok"
        /\ requests[t] = 3
        /\ html[t] = DetailPage
        /\ slept[t] = <<1, 2>>

\* C8: at most max_concurrency tasks hold the semaphore at any moment.
C8_AtMostCInFlight ==
    /\ Cardinality(InFlight) <= max_concurrency
    /\ sem >= 0
    /\ sem + Cardinality(InFlight) = max_concurrency

\* every slot is taken and a task waits for one
C8_Witness ==
    /\ Cardinality(InFlight) = max_concurrency
    /\ \E t \in Tasks : t_pc[t] = "start"

\* C9: scrape_details returns one record per URL whose fetch succeeded, an
\* empty page included.
C9_OneRecordPerSuccess ==
    hs_pc = "returned" => Len(results) = Cardinality({t \in Tasks : outcome[t] = "ok"})

(***************************************************************************)
(* Properties of run (SpecCoordinator)                                     *)
(***************************************************************************)
HasNumericId(offer) == offer.id.present /\ IntParses(offer.id.text)

NumericId(offer) == PyInt(offer.id.text)

\* C10: in every sequence handed to persistence, records with numeric ids
\* are in ascending order of id and records without one come after them.
C10_SavedOrder ==
    \A e \in 1..Len(save_log) :
        \A i, j \in 1..Len(save_log[e].items) :
            LET a == save_log[e].items[i]
                b == save_log[e].items[j]
            IN i < j =>
                /\ (HasNumericId(a) /\ HasNumericId(b) => NumericId(a) <= NumericId(b))
                /\ (HasNumericId(b) => HasNumericId(a))

\* three records were saved, one of them without id, in another order than
\* the harvester returned them
C10_Witness ==
    /\ Len(save_log) = 2
    /\ Len(save_log[1].items) >= 3
    /\ save_log[1].items /= results
    /\ \E i \in 1..Len(save_log[1].items) : ~HasNumericId(save_log[1].items[i])
    /\ \E i \in 1..Len(save_log[1].items) : save_log[1].items[i].id.text = <<"1", "0">>
    /\ \E i \in 1..Len(save_log[1].items) : save_log[1].items[i].id.text = <<"9">>

\* C11: when collect_links returns no URL, run returns without creating a
\* harvest task and without saving; when scrape_details returns no record,
\* run returns without saving.  (run raises only with URLs collected, when
\* the parser raised on a fetched page.)
C11_EmptyEndsEarly ==
    /\ (co_pc = "raised" => lc_result /= <<>> /\ \E t \in Tasks : html[t] = BrokenPage)
    /\ (co_pc = "done" /\ lc_result = <<>> =>
            /\ urls = <<>>
            /\ t_pc = <<>>
            /\ sem = max_concurrency
            /\ completed = <<>>
            /\ results = <<>>
            /\ save_log = <<>>)
    /\ (co_pc = "done" /\ results = <<>> => save_log = <<>>)
    /\ (co_pc /= "done" => save_log = <<>>)

\* run is over: tasks ran, one of them fetched an empty page, none gave a
\* record and nothing was saved
C11_Witness ==
    /\ co_pc = "done"
    /\ urls /= <<>>
    /\ results = <<>>
    /\ save_log = <<>>
    /\ \E t \in Tasks : html[t] = EmptyHtml

Range(s) == {s[i] : i \in 1..Len(s)}

\* C12: no list page is fetched while the discovered set already holds
\* max_items URLs; on the site of the scenario (3 detail links and a link to
\* a second page with 2 more, max_items = 4) collect_links returns 4
\* distinct URLs and has fetched the seed and the second page, nothing else.
C12_NoFetchAtCap ==
    [][/\ (fetch_log' /= fetch_log => Cardinality(collected_links) < max_items)
       /\ (site = "scenario" /\ lc_pc' = "returned" =>
              /\ max_items = 4
              /\ Len(lc_result') = 4
              /\ Cardinality(Range(lc_result')) = 4
              /\ ScenarioSeedLinks \subseteq Range(lc_result')
              /\ Range(lc_result') \subseteq ScenarioSeedLinks \cup ScenarioSecondLinks
              /\ fetch_log' = <<seed_url, "p2">>)]_vars

\* the scenario has run to its end
C12_Witness ==
    /\ site = "scenario"
    /\ lc_pc = "returned"
    /\ Len(lc_result) = 4
    /\ fetch_log = <<seed_url, "p2">>

\* C13: a step whose fetch fails keeps the page visited, leaves the
\* discovered set alone, only removes the page from the queue and stays in
\* the loop; a failed page stays visited; when the seed fails,
\* collect_links returns the empty list after one fetch.
C13_FailedFetchSkipped ==
    [][/\ (fetch_failed' /= fetch_failed =>
              /\ fetch_failed' = fetch_failed \cup {Head(pages_to_visit)}
              /\ visited_pages' = visited_pages \cup {Head(pages_to_visit)}
              /\ collected_links' = collected_links
              /\ pages_to_visit' = Tail(pages_to_visit)
              /\ lc_pc' = "loop"
              /\ lc_result' = lc_result)
       /\ fetch_failed' \subseteq visited_pages'
       /\ (lc_pc' = "returned" /\ seed_url \in fetch_failed' =>
              /\ lc_result' = <<>>
              /\ fetch_log' = <<seed_url>>)]_vars

\* a page failed and traversal went on: a later page was fetched and gave
\* detail links
C13_Witness ==
    /\ \E i \in 1..Len(fetch_log) :
        /\ i < Len(fetch_log)
        /\ fetch_log[i] \in fetch_failed
        /\ fetch_log[Len(fetch_log)] \notin fetch_failed
    /\ collected_links /= {}

\* C14: the phases of run follow each other: no harvest task exists before
\* collect_links has returned, nothing is sorted or saved before every task
\* has ended and was awaited, and with a non-empty record set save_csv then
\* save_jsonl are called once each with the same sorted sequence.
C14_PhasesInOrder ==
    /\ (co_pc = "collect" => urls = <<>> /\ t_pc = <<>> /\ save_log = <<>>)
    /\ (t_pc /= <<>> => lc_pc = "idle" /\ co_pc \in {"harvest", "done", "raised"})
    /\ (save_log /= <<>> =>
            /\ co_pc = "done"
            /\ completed = <<>>
            /\ \A t \in Tasks : t_pc[t] = "done"
            /\ results /= <<>>
            /\ Len(save_log) = 2
            /\ save_log[1].dest = "csv"
            /\ save_log[2].dest = "jsonl"
            /\ save_log[1].items = save_log[2].items
            /\ save_log[1].items = SortOffers(results))
    /\ (co_pc = "done" /\ results /= <<>> => save_log /= <<>>)

\* two tasks gave a record each and both were saved
C14_Witness ==
    /\ co_pc = "done"
    /\ Len(urls) >= 2
    /\ Len(results) >= 2
    /\ Len(save_log) = 2
    /\ Len(save_log[2].items) = Len(results)

\* C15: list pages are fetched first in, first out: the pages fetched so far
\* are, in order, the first pages ever appended to the queue; a fetch takes
\* the front of the queue and the pages it enqueues go behind every page that
\* was already queued.
C15_FetchedInEnqueueOrder ==
    [][/\ Len(fetch_log') <= Len(enqueued')
       /\ fetch_log' = SubSeq(enqueued', 1, Len(fetch_log'))
       /\ (fetch_log' /= fetch_log =>
              /\ fetch_log' = Append(fetch_log, Head(pages_to_visit))
              /\ Len(pages_to_visit') >= Len(pages_to_visit) - 1
              /\ SubSeq(pages_to_visit', 1, Len(pages_to_visit) - 1) = Tail(pages_to_visit))]_vars

\* three pages were fetched, the seed having enqueued p3 before p2
C15_Witness ==
    /\ Len(fetch_log) = 3
    /\ fetch_log = <<seed_url, "p3", "p2">>
    /\ enqueued = fetch_log

\* C16: when collect_links has returned, the queue is empty or the discovered
\* set holds exactly max_items URLs; it has not returned with pages still
\* queued and fewer than max_items URLs discovered.
C16_ReturnsAtEmptyOrCap ==
    lc_pc = "returned" =>
        /\ (pages_to_visit = <<>> \/ Cardinality(collected_links) = max_items)
        /\ ~(pages_to_visit /= <<>> /\ Cardinality(collected_links) < max_items)
        /\ Len(lc_result) = Cardinality(collected_links)

\* returned at the cap with a page still queued
C16_Witness ==
    /\ lc_pc = "returned"
    /\ max_items >= 1
    /\ pages_to_visit /= <<>>
    /\ Cardinality(collected_links) = max_items
    /\ Len(fetch_log) >= 2

\* C17: when get_text calls are made one after the other (one slot), a call
\* made less than rate_limit_seconds after the previous fetch began suspends
\* instead of fetching, and every fetch begins at least rate_limit_seconds
\* after each fetch that began before it.
C17_SequentialCallsSpaced ==
    [][max_concurrency = 1 =>
        \A t \in Tasks :
            /\ (t_pc[t] = "start" /\ t_pc'[t] /= "start" /\ now - last_request_time < rate_limit_seconds =>
                    /\ t_pc'[t] = "rl_sleep"
                    /\ started'[t] = started[t]
                    /\ last_request_time' = last_request_time)
            /\ (started'[t] /= started[t] =>
                    \A u \in Tasks \ {t} :
                        started[u] >= 0 => started'[t] - started[u] >= rate_limit_seconds)]_vars

\* the second of two calls is suspended until rate_limit_seconds after the
\* first fetch began
C17_Witness ==
    /\ max_concurrency = 1
    /\ rate_limit_seconds >= 1
    /\ \E t, u \in Tasks :
        /\ t /= u
        /\ t_pc[u] = "done"
        /\ started[u] >= 0
        /\ t_pc[t] = "rl_sleep"
        /\ wake[t] = started[u] + rate_limit_seconds
        /\ now < wake[t]

\* C18 as stated: with calls made one after the other, a fetch starts at
\* least rate_limit_seconds after the end of the fetch before it.
C18_EndToStartSpaced ==
    [][max_concurrency = 1 =>
        \A t \in Tasks :
            started'[t] /= started[t] /\ last_end >= 0 =>
                started'[t] - last_end >= rate_limit_seconds]_vars

\* C18 amended: the interval is measured from the start of a fetch: a call
\* begins its fetch at least rate_limit_seconds after the start of the fetch
\* that was the most recent one when the call was made, sleeping exactly the
\* remaining part of the interval.
C18_StartToStartSpaced ==
    [][\A t \in Tasks :
        /\ (t_pc[t] = "start" /\ started'[t] /= started[t] =>
                started'[t] - last_request_time >= rate_limit_seconds)
        /\ (t_pc[t] = "start" /\ t_pc'[t] = "rl_sleep" =>
                wake'[t] = last_request_time + rate_limit_seconds)
        /\ (t_pc[t] = "rl_sleep" /\ started'[t] /= started[t] =>
                /\ started'[t] >= wake[t]
                /\ last_request_time' = started'[t])]_vars

\* a fetch begins a full interval after the start of the one before it, but
\* less than an interval after its end
C18_Witness ==
    /\ rate_limit_seconds >= 1
    /\ last_end >= 0
    /\ \E t, u \in Tasks :
        /\ t /= u
        /\ t_pc[u] = "done"
        /\ started[u] >= 0
        /\ started[t] = now
        /\ started[t] - started[u] >= rate_limit_seconds
        /\ started[t] - last_end < rate_limit_seconds

\* C19: over a whole run the harvester works on the list collect_links
\* returned: at most max_items URLs are submitted, all distinct, at most
\* max_items detail-page get_text calls are made, and at most max_items
\* records are handed to save_csv and save_jsonl.
C19_HarvestWithinCap ==
    /\ Len(urls) <= max_items
    /\ (urls /= <<>> => urls = lc_result)
    /\ \A i, j \in 1..Len(urls) : urls[i] = urls[j] => i = j
    /\ Cardinality({t \in Tasks : t_pc[t] /= "start"}) <= max_items
    /\ Len(results) <= max_items
    /\ \A k \in 1..Len(save_log) : Len(save_log[k].items) <= max_items

\* a run that submitted max_items URLs and saved a record for each
C19_Witness ==
    /\ co_pc = "done"
    /\ max_items >= 2
    /\ Len(urls) = max_items
    /\ \A t \in Tasks : t_pc[t] = "done"
    /\ Len(save_log) = 2
    /\ Len(save_log[1].items) = max_items

\* C20 as stated: whatever fetches fail, run never ends by raising and always ends by
\* returning; when every detail fetch failed, nothing was saved.
C20_RunReturns ==
    /\ [](co_pc /= "raised" /\ hs_pc /= "raised" /\ \A t \in Tasks : t_pc[t] /= "raised")
    /\ [](co_pc = "done" /\ (\A t \in Tasks : html[t] = NoneHtml) => save_log = <<>>)
    /\ <>(co_pc = "done")

\* the records parse has returned so far
Parsed == {dp_records[k] : k \in {j \in 1..Len(dp_records) : dp_records[j].kind = "offer"}}

\* the blocks that start with "oferta" or hold a promotional keyword
Qualifying == {b \in TextBlocks(dp_html) : StartsWithOferta(b) \/ MatchesKeywords(b)}

\* C21: when some text block starts with "oferta" or matches a promotional
\* keyword, the offer field is a block of the page that does; it is the
\* empty string only when no block does.
C21_OfferIsQualifyingBlock ==
    \A r \in Parsed :
        /\ (Qualifying /= {} => r.offer \in Qualifying)
        /\ (r.offer = EmptyStr <=> Qualifying = {})

\* the keyword tier chose a block although a shorter plain block exists
C21_Witness ==
    /\ \E r \in Parsed : r.offer = <<"dois", "por", "um", W9>>
    /\ <<W9, W9>> \in TextBlocks(dp_html)

\* the blocks that start with "oferta"
OfertaBlocks == {b \in TextBlocks(dp_html) : StartsWithOferta(b)}

\* C22: when some block starts with "oferta", the offer field is a shortest
\* of these blocks, even if a shorter block matches a keyword only; the
\* shortest keyword block is the result only when no block starts with
\* "oferta".
C22_OfertaTierFirst ==
    \A r \in Parsed :
        /\ (OfertaBlocks /= {} =>
                /\ r.offer \in OfertaBlocks
                /\ \A b \in OfertaBlocks : BlockLen(r.offer) <= BlockLen(b))
        /\ (OfertaBlocks = {} /\ Qualifying /= {} =>
                /\ r.offer \in Qualifying
                /\ \A b \in Qualifying : BlockLen(r.offer) <= BlockLen(b))
        /\ (r.offer /= EmptyStr /\ ~StartsWithOferta(r.offer) => OfertaBlocks = {})

\* an "oferta" block won over a shorter keyword block
C22_Witness ==
    /\ \E r \in Parsed : r.offer = <<"Oferta", W9>>
    /\ <<W9, "2x1">> \in TextBlocks(dp_html)
    /\ BlockLen(<<W9, "2x1">>) < BlockLen(<<"Oferta", W9>>)

\* the blocks that neither start with "oferta" nor match a keyword
CleanBlocks == {b \in TextBlocks(dp_html) : ~StartsWithOferta(b) /\ ~MatchesKeywords(b)}

WithText == {i \in 1..Len(Selected(dp_html)) :
                Selected(dp_html)[i].present /\ Selected(dp_html)[i].text /= EmptyStr}

\* C24: the title is the first non-empty text along the selector list: an
\* element that exists with an empty text is passed over for the next
\* selector that gives text.
C24_FirstNonEmptyTitle ==
    \A r \in Parsed :
        /\ (WithText = {} => r.title = EmptyStr)
        /\ (WithText /= {} =>
                r.title = Selected(dp_html)[CHOOSE i \in WithText : \A j \in WithText : i <= j].text)

\* the entries of a string made by " | ".join
RECURSIVE Split(_)
Split(s) ==
    IF s = <<>> THEN <<>>
    ELSE IF \E i \in 1..Len(s) : s[i] = "|"
    THEN LET i == CHOOSE i \in 1..Len(s) : s[i] = "|" /\ \A j \in 1..(i - 1) : s[j] /= "|"
         IN <<SubSeq(s, 1, i - 1)>> \o Split(SubSeq(s, i + 1, Len(s)))
    ELSE <<s>>

\* the blocks shorter than 150 characters that hold a postal code
ShortCep == {b \in TextBlocks(dp_html) : HasCep(b) /\ BlockLen(b) < 150}

\* the blocks shorter than 150 characters that hold a street indicator
ShortStreet == {b \in TextBlocks(dp_html) : HasIndicator(b) /\ BlockLen(b) < 150}

\* entries all different, in ascending length
AscendingDistinct(l) ==
    \A i, j \in 1..Len(l) : i < j => l[i] /= l[j] /\ BlockLen(l[i]) <= BlockLen(l[j])

BearingPhones ==
    UNION {FindPhones(b) : b \in {t \in TextBlocks(dp_html) : HasCep(t) \/ HasIndicator(t)}}

\* the formatted phones of the whole page
PagePhones == FindPhones(dp_html.other) \cup UNION {FindPhones(t) : t \in dp_html.texts}

\* the entries of a string made by " | ".join, character by character
RECURSIVE SplitChars(_)
SplitChars(s) ==
    IF s = <<>> THEN <<>>
    ELSE IF \E i \in 2..(Len(s) - 1) : s[i] = "|"
    THEN LET i == CHOOSE i \in 2..(Len(s) - 1) : s[i] = "|" /\ \A j \in 1..(i - 1) : s[j] /= "|"
         IN <<SubSeq(s, 1, i - 2)>> \o SplitChars(SubSeq(s, i + 2, Len(s)))
    ELSE <<s>>

\* "(DD) NNNN-NNNN" or "(DD) NNNNN-NNNN"
PhoneShaped(p) ==
    /\ Len(p) \in {14, 15}
    /\ p[1] = "(" /\ p[2] \in Digits /\ p[3] \in Digits /\ p[4] = ")" /\ p[5] = " "
    /\ \A i \in 6..(Len(p) - 5) : p[i] \in Digits
    /\ p[Len(p) - 4] = "-"
    /\ \A i \in (Len(p) - 3)..Len(p) : p[i] \in Digits

\* C26 as stated: when an address-bearing block holds a phone, the phone
\* field holds the phones of the address-bearing blocks and no other; the
\* phones of the whole page are used only when these blocks hold none;
\* either way every phone appears once, in lexicographic order, formatted
\* "(DD) NNNNN-NNNN": two digits, then five, then four.
C26_PhoneTiersFiveDigits ==
    \A r \in Parsed :
        LET entries == SplitChars(r.phone) IN
        /\ (BearingPhones /= {} => Range(entries) = BearingPhones)
        /\ (BearingPhones = {} => Range(entries) = PagePhones)
        /\ \A i, j \in 1..Len(entries) : i < j => StrLess(entries[i], entries[j])
        /\ \A i \in 1..Len(entries) : PhoneShaped(entries[i]) /\ Len(entries[i]) = 15

\* C26 amended: the same tiers, every phone once and in lexicographic
\* order, formatted "(DD) NNNN-NNNN" or "(DD) NNNNN-NNNN": the middle group
\* keeps the 4 or 5 digits the page gives it.
C26_PhoneTiers ==
    \A r \in Parsed :
        LET entries == SplitChars(r.phone) IN
        /\ (BearingPhones /= {} => Range(entries) = BearingPhones)
        /\ (BearingPhones = {} => Range(entries) = PagePhones)
        /\ \A i, j \in 1..Len(entries) : i < j => StrLess(entries[i], entries[j])
        /\ \A i \in 1..Len(entries) : PhoneShaped(entries[i])
        /\ (r.phone = EmptyStr <=> BearingPhones = {} /\ PagePhones = {})

\* the phone of an address block was kept and the phone of a plain block
\* of the same page was left out
C26_Witness ==
    /\ <<W9, W9b, "21 98888-7777">> \in TextBlocks(dp_html)
    /\ \E r \in Parsed :
        /\ Len(SplitChars(r.phone)) = 2
        /\ FormatPhone(PhoneGroups("21 98888-7777")) \notin Range(SplitChars(r.phone))

\* C27: two runs of parse on the same page and URL give records that are
\* equal in every field but images, and whose images are equal as sets,
\* whatever the orders in which the text blocks are enumerated.
C27_ParseTwiceEqual ==
    \A i, j \in 1..Len(dp_records) :
        /\ [dp_records[i] EXCEPT !.images = <<>>] = [dp_records[j] EXCEPT !.images = <<>>]
        /\ Range(dp_records[i].images) = Range(dp_records[j].images)

\* an href of the shape /home/details/<digits>, with or without a final slash
DetailShape(href) ==
    \E n \in 1..(Len(href) - 1) :
        /\ href[1] = "/home/details/"
        /\ \A i \in 2..(n + 1) : href[i] \in Digits
        /\ Len(href) = n + 1 \/ (Len(href) = n + 2 /\ href[n + 2] = "/")

\* C28: extract_detail_links returns no URL twice, and every URL it returns
\* is the base URL followed by an href of the page that has the shape
\* /home/details/<digits> with an optional final slash; hrefs of another
\* shape give no URL.
C28_DetailLinksShape ==
    lp_pc = "returned" =>
        /\ \A i, j \in 1..Len(lp_links) : lp_links[i] = lp_links[j] => i = j
        /\ \A i \in 1..Len(lp_links) :
            /\ \E k \in 1..Len(lp_html) :
                /\ DetailShape(lp_html[k])
                /\ lp_links[i] = <<BASE_URL>> \o lp_html[k]
            /\ \A k \in 1..Len(lp_html) :
                ~DetailShape(lp_html[k]) => lp_links[i] /= <<BASE_URL>> \o lp_html[k]

\* one link came out of a page that names it twice, beside an href that
\* only starts like a detail path
C28_Witness ==
    /\ lp_pc = "returned"
    /\ Len(lp_links) = 1
    /\ \E i, j, k \in 1..Len(lp_html) :
        /\ i /= j
        /\ lp_html[i] = lp_html[j]
        /\ DetailShape(lp_html[i])
        /\ lp_html[k] = <<"/home/details/", "1", "/", "x">>

\* C29: every record parse returns has the URL parse was given, which is
\* not empty; its images are a sequence without a repeated entry, empty
\* when the page has no image; its id, when present, is the non-empty run
\* of digits behind /details/ in the URL, and it is absent exactly when
\* the URL has no digit there.
C29_RecordInvariants ==
    \A r \in Parsed :
        /\ r.url = dp_url
        /\ r.url /= <<>>
        /\ DOMAIN r.images = 1..Len(r.images)
        /\ \A i, j \in 1..Len(r.images) : r.images[i] = r.images[j] => i = j
        /\ (dp_html.imgs = <<>> => r.images = <<>>)
        /\ (r.id.present =>
                /\ r.id.text /= <<>>
                /\ \A i \in 1..Len(r.id.text) : r.id.text[i] \in Digits
                /\ r.id.text = SubSeq(dp_url, 1, Len(r.id.text)))
        /\ (~r.id.present <=> dp_url[1] \notin Digits)

\* two img elements that name the same picture gave one entry, and the
\* record has an id
C29_Witness ==
    /\ Len(dp_html.imgs) = 2
    /\ dp_html.imgs[1] /= dp_html.imgs[2]
    /\ \E r \in Parsed :
        /\ r.id.present
        /\ Len(r.images) = 1
        /\ \A i \in 1..2 : urljoin(BASE_URL, ImageUrl(dp_html.imgs[i])) = r.images[1]

\* C30: a call of save_csv or save_jsonl with no record writes no file: it
\* logs one warning, names no destination and returns; files are written
\* with one record or more only.
C30_EmptySaveWritesNothing ==
    [][/\ (repo_warnings' /= repo_warnings =>
                /\ save_log' = save_log
                /\ Len(repo_warnings') = Len(repo_warnings) + 1
                /\ co_pc' = "repository")
       /\ (save_log' /= save_log =>
                /\ repo_warnings' = repo_warnings
                /\ save_log'[Len(save_log')].items /= <<>>)
       /\ \A k \in 1..Len(save_log') : save_log'[k].items /= <<>>]_vars

\* both functions were called with no record: two warnings, no file
C30_Witness ==
    /\ co_pc = "repository"
    /\ repo_warnings = <<"csv", "jsonl">>
    /\ save_log = <<>>

(***************************************************************************)
(* Properties settled last                                                 *)
(***************************************************************************)
\* the entries of one level in the log of a call
Entries(t, level) == {i \in 1..Len(log[t]) : log[t][i] = level}

\* the attempts of a call that have failed so far
FailedAttempts(t) ==
    IF t_pc[t] = "attempt" \/ (t_pc[t] = "done" /\ outcome[t] = "ok")
    THEN requests[t] - 1
    ELSE requests[t]

\* C31: a get_text call has logged one warning for each attempt that failed;
\* it logs one error, after its third warning, exactly when its three
\* attempts have all failed, and none when an attempt succeeds.
C31_WarningsThenError ==
    \A t \in Tasks :
        /\ Cardinality(Entries(t, "warning")) = FailedAttempts(t)
        /\ Cardinality(Entries(t, "error")) <= 1
        /\ (Entries(t, "error") /= {} <=> t_pc[t] = "done" /\ outcome[t] = "fail" /\ requests[t] = 3)
        /\ (Entries(t, "error") /= {} => log[t] = <<"warning", "warning", "warning", "error">>)
        /\ (t_pc[t] = "done" /\ outcome[t] = "ok" => Entries(t, "error") = {})

\* one call gave up after three warnings and an error, another succeeded at
\* its second attempt with one warning
C31_Witness ==
    \E t, u \in Tasks :
        /\ t_pc[t] = "done" /\ log[t] = <<"warning", "warning", "warning", "error">>
        /\ t_pc[u] = "done" /\ outcome[u] = "ok" /\ log[u] = <<"warning">>

\* the pages a step put at the back of the queue
Appended == SubSeq(pages_to_visit', Len(pages_to_visit), Len(pages_to_visit'))

\* C32: a step of collect_links extracts and enqueues pagination links only
\* when the discovered set is below max_items after the detail links of the
\* fetched page were added, and it appends exactly the extracted links that
\* are not visited at that moment; a page that brings the discovered set to
\* max_items enqueues nothing.
C32_PaginationBelowCapOnly ==
    [][fetch_log' /= fetch_log =>
        /\ pages_to_visit' = Tail(pages_to_visit) \o Appended
        /\ (Appended /= <<>> \/ linked' /= linked =>
                /\ Cardinality(collected_links') < max_items
                /\ Head(pages_to_visit) \notin fetch_failed')
        /\ \A i \in 1..Len(Appended) :
                /\ Appended[i] \notin visited_pages'
                /\ Appended[i] \in linked'
        /\ (linked' \ linked) \ visited_pages' \subseteq Range(Appended)
        /\ (Cardinality(collected_links') >= max_items =>
                /\ pages_to_visit' = Tail(pages_to_visit)
                /\ linked' = linked)]_vars

\* the seed links to itself and to a second page, below the cap: the second
\* page alone was enqueued
C32_Witness ==
    /\ fetch_log = <<seed_url>>
    /\ linked = {seed_url, "p2"}
    /\ pages_to_visit = <<"p2">>
    /\ collected_links /= {}
    /\ Cardinality(collected_links) < max_items

\* C33: the visited set of collect_links only grows: a step leaves it as it
\* is or adds the page it took from the queue, and takes nothing out of it.
C33_VisitedOnlyGrows ==
    [][/\ visited_pages \subseteq visited_pages'
       /\ (visited_pages' /= visited_pages =>
              /\ lc_pc = "loop"
              /\ Head(pages_to_visit) \notin visited_pages
              /\ visited_pages' = visited_pages \cup {Head(pages_to_visit)})]_vars

\* every page of the site is in the visited set, one of them after a
\* failed fetch, and the queue has run empty
C33_Witness ==
    /\ visited_pages = Pages
    /\ fetch_failed /= {}
    /\ Len(fetch_log) = Cardinality(Pages)
    /\ Len(enqueued) = Cardinality(Pages)
    /\ pages_to_visit = <<>>
    /\ lc_pc = "loop"

\* the records of a sequence that have no numeric id, in their order
WithoutId(s) == SelectSeq(s, LAMBDA o : ~HasNumericId(o))

\* C34: the records without a numeric id are saved in the relative order in
\* which scrape_details returned them; scrape_details appends a record when
\* its task is awaited, tasks are awaited in the order they ended, and the
\* returned list is not reordered.
C34_StableAndCompletionOrder ==
    /\ [](\A e \in 1..Len(save_log) : WithoutId(save_log[e].items) = WithoutId(results))
    /\ [][/\ \A t \in Tasks :
                t_pc[t] /= "done" /\ t_pc'[t] = "done" =>
                    /\ Len(completed') = Len(completed) + 1
                    /\ SubSeq(completed', 1, Len(completed)) = completed
                    /\ completed'[Len(completed')].task = t
          /\ (results' /= results =>
                /\ completed /= <<>>
                /\ completed' = Tail(completed)
                /\ results' = Append(results, Head(completed).item))
          /\ (hs_pc = "gather" /\ hs_pc' /= "gather" => results' = results)]_vars

\* two records without id were returned in the reverse of the order their
\* URLs were submitted in, before a record with an id, and were saved behind
\* it in the order they were returned
C34_Witness ==
    /\ co_pc = "done"
    /\ Len(results) = 3
    /\ Len(save_log) = 2
    /\ results[1].url = urls[2]
    /\ results[2].url = urls[1]
    /\ ~HasNumericId(results[1])
    /\ ~HasNumericId(results[2])
    /\ HasNumericId(results[3])
    /\ save_log[1].items = <<results[3], results[1], results[2]>>

\* C35: collect_links returns on every site of finitely many list pages,
\* whatever links the pages hold and whichever fetches fail: it fetches at
\* most once per page of the site, and its loop ends.
C35_CollectTerminates ==
    /\ [](Len(fetch_log) <= Cardinality(Pages))
    /\ <>(lc_pc = "returned")

\* collect_links returned below the cap, its queue run empty, on a site
\* whose pages link back to the seed and where a fetch failed
C35_Witness ==
    /\ lc_pc = "returned"
    /\ Cardinality(collected_links) < max_items
    /\ pages_to_visit = <<>>
    /\ seed_url \in linked
    /\ fetch_failed /= {}
    /\ Len(fetch_log) = Cardinality(Pages)

\* C36: with every fetch returning, scrape_details completes: once it is
\* gathering it comes to return, every task having made its get_text call
\* and ended, and no slot of the semaphore being held.
C36_HarvestCompletes ==
    (hs_pc = "gather") ~>
        (/\ hs_pc = "returned"
         /\ sem = max_concurrency
         /\ \A t \in Tasks : t_pc[t] = "done")

\* C37: _last_request_time is written once per get_text call, by
\* _apply_rate_limit before the first attempt of the call; a retry is not
\* made to wait for the rate limit and leaves _last_request_time alone: it
\* begins when its backoff is over, however recent the last fetch is.
C37_StampedOncePerCall ==
    [][/\ \A t \in Tasks :
            /\ (started'[t] /= started[t] =>
                    /\ started[t] = -1
                    /\ requests[t] = 0
                    /\ requests'[t] = 1
                    /\ started'[t] = now
                    /\ last_request_time' = now)
            /\ (requests[t] >= 1 /\ requests'[t] /= requests[t] =>
                    /\ requests'[t] = requests[t] + 1
                    /\ t_pc[t] = "backoff"
                    /\ now >= wake[t]
                    /\ t_pc'[t] = "attempt"
                    /\ started'[t] = started[t]
                    /\ last_request_time' = last_request_time)
       /\ ((\A t \in Tasks : started'[t] = started[t]) => last_request_time' = last_request_time)]_vars

\* a retry has just begun, less than rate_limit_seconds after another call
\* began its fetch, and the time of that fetch is still the one recorded
C37_Witness ==
    \E t, u \in Tasks :
        /\ t /= u
        /\ t_pc[t] = "attempt"
        /\ requests[t] >= 2
        /\ wake[t] = now
        /\ started[u] > started[t]
        /\ last_request_time = started[u]
        /\ now - started[u] < rate_limit_seconds

\* C38: every URL collect_links returns was extracted by
\* extract_detail_links from a page fetched successfully in the run; every
\* page fetched is the seed or was extracted by extract_pagination_links
\* from a page fetched successfully before; with max_items at or below 0
\* collect_links fetches nothing and returns the empty list.
C38_OnlyWhatPagesOffer ==
    /\ [](/\ collected_links \subseteq offered
          /\ Range(lc_result) \subseteq offered
          /\ (max_items <= 0 => fetch_log = <<>> /\ offered = {} /\ lc_result = <<>>))
    /\ [][/\ (fetch_log' /= fetch_log =>
                fetch_log'[Len(fetch_log')] = seed_url \/ fetch_log'[Len(fetch_log')] \in linked)
          /\ (offered' /= offered \/ linked' /= linked =>
                /\ fetch_log' /= fetch_log
                /\ fetch_log'[Len(fetch_log')] \notin fetch_failed')]_vars

\* collect_links returned URLs of two pages, fewer than the pages offered,
\* after a fetch failed and a page reached through a pagination link
\* succeeded
C38_Witness ==
    /\ lc_pc = "returned"
    /\ Len(lc_result) >= 2
    /\ Range(lc_result) /= offered
    /\ fetch_failed /= {}
    /\ Len(fetch_log) = Cardinality(Pages)
    /\ fetch_log[Len(fetch_log)] \notin fetch_failed
    /\ fetch_log[Len(fetch_log)] \in linked

\* how often a record is in a sequence
Count(s, x) == Cardinality({i \in 1..Len(s) : s[i] = x})

\* C39: the sequence handed to save_csv and save_jsonl is a permutation of
\* the records scrape_details returned; the URL of every saved record is one
\* of the URLs collect_links returned, and no two saved records have the
\* same URL.
C39_SavedIsPermutation ==
    \A e \in 1..Len(save_log) :
        LET items == save_log[e].items IN
        /\ Len(items) = Len(results)
        /\ \A x \in Range(items) \cup Range(results) : Count(items, x) = Count(results, x)
        /\ \A i \in 1..Len(items) : items[i].url \in Range(lc_result)
        /\ \A i, j \in 1..Len(items) : items[i].url = items[j].url => i = j

\* two records were saved in the reverse of the order they were returned
\* in, and one of the three URLs of collect_links gave no record
C39_Witness ==
    /\ Len(save_log) = 2
    /\ Len(lc_result) = 3
    /\ Len(results) = 2
    /\ save_log[2].items = <<results[2], results[1]>>
    /\ \E t \in Tasks : html[t] = NoneHtml

====
